---- MODULE Spec2Model ----
(***************************************************************************)
(* State-machine model of the scheduled-task engine of SREAgents:          *)
(* backend/scheduler.py (class TaskScheduler) and the scheduled-task       *)
(* handlers of backend/server.py.                                          *)
(*                                                                         *)
(* Everything runs on one asyncio event loop, so a handler or coroutine    *)
(* runs without interruption from one suspension point to the next.  The   *)
(* only suspension points of the engine are the iteration steps of the     *)
(* agent stream (scheduler.py:219) and the hand-over of a scheduled fire   *)
(* from the scheduler to the event loop.  One action of the model is one   *)
(* such uninterrupted run.                                                 *)
(*                                                                         *)
(* Instants are integers: one unit is one reading of the clock.  The cron  *)
(* minute is that unit.  None (null) is the number Null for instants and   *)
(* the string NullStr for texts.                                           *)
(***************************************************************************)
EXTENDS Integers, Sequences, FiniteSets, TLC

\* ------------------------------------------------------------------ bounds
MaxClock == 2
MaxOps   == 2
MaxMsgs  == 1

\* --------------------------------------------------------------- constants
Null    == -1
NullStr == "null"
SummaryLen == 200
Horizon == 1440

TaskIds == 0 .. MaxClock

\* ---------------------------------------------------------- Cron Evaluator
\* A cron expression is the sequence of its whitespace-separated fields
\* (the result of cron_expr.split()).
EveryMinute   == <<"*/1", "*", "*", "*", "*">>
Hourly        == <<"0", "*", "*", "*", "*">>
FourFields    == <<"*", "*", "*", "*">>
MinuteOutOfRange == <<"60", "*", "*", "*", "*">>
SixFields     == <<"*", "*", "*", "*", "*", "*">>
Unparsable    == <<"abc", "*", "*", "*", "*">>
ValidCronExprs == {EveryMinute, Hourly}
\* wrong field count, a value out of range, a field that does not parse
MalformedCronExprs == {FourFields, SixFields, MinuteOutOfRange, Unparsable}
CronExprs == ValidCronExprs \cup {FourFields, MinuteOutOfRange}

\* Field token `tok` selects the value v of lo..hi.  A token the CronTrigger
\* constructor rejects for the field (unparsable, or naming a value outside
\* lo..hi) selects nothing.
FieldMatches(tok, v, lo, hi) ==
    /\ lo <= v /\ v <= hi
    /\ CASE tok = "*"   -> TRUE
         [] tok = "*/1" -> TRUE
         [] tok = "*/2" -> (v - lo) % 2 = 0
         [] tok = "0"   -> v = 0
         [] tok = "60"  -> v = 60
         [] OTHER       -> FALSE

FieldValid(tok, lo, hi) == \E v \in lo .. hi : FieldMatches(tok, v, lo, hi)

\* CronTrigger(minute, hour, day, month, day_of_week) accepts the fields.
CronTrigger(parts) ==
    /\ FieldValid(parts[1], 0, 59)
    /\ FieldValid(parts[2], 0, 23)
    /\ FieldValid(parts[3], 1, 31)
    /\ FieldValid(parts[4], 1, 12)
    /\ FieldValid(parts[5], 0, 6)

\* a validation that looks at the first five fields only
validate_first_five_fields(cron_expr) ==
    IF Len(cron_expr) < 5 THEN FALSE ELSE CronTrigger(cron_expr)

\* validate_cron_expression: False for another number of fields than five
\* and for fields CronTrigger rejects (any exception), True otherwise
validate_cron_expression(cron_expr) ==
    IF Len(cron_expr) # 5 THEN FALSE ELSE CronTrigger(cron_expr)

\* Instant m read as a calendar time; instant 0 is a Monday, the 1st of
\* January, 00:00, and the model's instants stay within that January.
\* CronTrigger counts the days of the week from Monday = 0 (the value of
\* datetime.weekday()).
MinutesPerDay == 1440
weekday(m) == (m \div MinutesPerDay) % 7

Matches(parts, m) ==
    /\ FieldMatches(parts[1], m % 60, 0, 59)
    /\ FieldMatches(parts[2], (m \div 60) % 24, 0, 23)
    /\ FieldMatches(parts[3], 1 + (m \div MinutesPerDay), 1, 31)
    /\ FieldMatches(parts[4], 1, 1, 12)
    /\ FieldMatches(parts[5], weekday(m), 0, 6)

\* the first of the `left` instants from m on that qualifies, None (Null)
\* when none of them does
FirstMatch(parts, m, left) ==
    IF \E k \in m .. (m + left - 1) : Matches(parts, k)
    THEN CHOOSE k \in m .. (m + left - 1) :
             /\ Matches(parts, k)
             /\ \A j \in m .. (k - 1) : ~Matches(parts, j)
    ELSE Null

\* CronTrigger.get_next_fire_time(None, now) for the instant `now` in minute
\* `minute`; `whole`: now is the start of that minute to the microsecond.
\* The trigger rounds now up to a whole second and searches from there, so
\* an instant that is a whole minute is tried itself.  None when there is
\* no qualifying instant.
next_fire_time(parts, minute, whole) ==
    FirstMatch(parts, IF whole THEN minute ELSE minute + 1, Horizon)

\* trigger.get_next_fire_time for a reading `now` of the clock, which falls
\* between two whole minutes: the earliest qualifying instant after `now`,
\* None when there is none.
get_next_fire_time(parts, now) == next_fire_time(parts, now, FALSE)


\* ------------------------------------------------------------------- state
VARIABLES
    clock,            \* the clock: loop.time() and datetime.now()
    started,          \* TaskScheduler.start() has run in this process
    task_files,       \* tasks_dir/<id>.json, per task id
    execution_files,  \* tasks_dir/<id>/executions/*.json, per task id
    running_tasks,    \* TaskScheduler._running_tasks
    jobs,             \* the job store of TaskScheduler.scheduler
    coroutines,       \* calls of _execute_task_impl that have not returned
    nops,             \* number of requests served and of calls of
                      \* _execute_task_impl made so far
    returned          \* what the operation that completed last returned

vars == <<clock, started, task_files, execution_files, running_tasks, jobs,
          coroutines, nops, returned>>

NoFile      == [file |-> "absent"]
CorruptFile == [file |-> "corrupt"]
NoJob       == [job |-> "absent"]
IsTask(doc) == "id" \in DOMAIN doc
Has(rec, f) == f \in DOMAIN rec

Names == {"n1"}

\* datetime.now() and int(loop.time() * 1000)
Now      == clock
LoopTime == clock

\* ---------------------------------------------- Task Store, Execution Store
save_task(files, task) == [files EXCEPT ![task.id] = task]

\* one file per execution id: a record with the same id is overwritten
save_execution(efiles, task_id, execution) ==
    [efiles EXCEPT ![task_id] = {x \in @ : x.id # execution.id} \cup {execution}]

\* -------------------------------------------------- TaskScheduler: registry
\* scheduler.add_job(..., trigger, id=task_id, replace_existing=True)
add_job(js, task_id, cron_parts) ==
    [js EXCEPT ![task_id] = [trigger |-> cron_parts,
                             next_run_time |-> get_next_fire_time(cron_parts, Now)]]

get_next_run_time(js, task_id) ==
    IF js[task_id] # NoJob /\ js[task_id].next_run_time # Null
    THEN js[task_id].next_run_time ELSE Null

\* add_task: the outcome as a record: raised, and the job store, the task
\* files and the caller's task dict afterwards.
add_task_registers_first(js, files, task) ==
    IF ~ (Len(task.cronExpression) = 5 /\ CronTrigger(task.cronExpression))
    THEN [raised |-> TRUE,
          jobs |-> [js EXCEPT ![task.id] = [trigger |-> task.cronExpression,
                                            next_run_time |-> Null]],
          files |-> files, task |-> task]
    ELSE [raised |-> FALSE, jobs |-> add_job(js, task.id, task.cronExpression),
          files |-> files, task |-> task]

add_task(js, files, task) ==
    IF ~ (Len(task.cronExpression) = 5 /\ CronTrigger(task.cronExpression))
    THEN [raised |-> TRUE, jobs |-> js, files |-> files, task |-> task]
    ELSE LET js2  == add_job(js, task.id, task.cronExpression)
             nrt  == get_next_run_time(js2, task.id)
             task2 == IF nrt # Null THEN [task EXCEPT !.nextExecutionAt = nrt] ELSE task
         IN [raised |-> FALSE, jobs |-> js2,
             files |-> IF nrt # Null THEN save_task(files, task2) ELSE files,
             task |-> task2]

\* scheduler.remove_all_jobs() in place of remove_job(task_id)
remove_task_clears_registry(js, task_id) == [t \in DOMAIN js |-> NoJob]

\* remove_task: scheduler.remove_job, a missing job is logged and ignored
remove_task(js, task_id) == [js EXCEPT ![task_id] = NoJob]

update_task_untouched(js, files, task) ==
    [raised |-> FALSE, jobs |-> js, files |-> files, task |-> task]

\* update_task: remove, then add if the task is enabled
update_task(js, files, task) ==
    IF task.enabled
    THEN add_task(remove_task(js, task.id), files, task)
    ELSE [raised |-> FALSE, jobs |-> remove_task(js, task.id), files |-> files, task |-> task]

\* ------------------------------------------- TaskScheduler: executing a task
\* Message fragments of the agent stream: a text block, or a fragment with
\* no text (skipped by the collection loop).
Fragments == { [text |-> <<"o", "k">>], [text |-> <<>>] }
Failures  == { "Claude Agent SDK not installed" }
\* texts are sequences of characters; the default summary is one symbol
DefaultSummary == <<"done">>
AlreadyRunning == "Task is already running"
TaskNotFound   == "Task not found"
LoadFailed     == "Failed to load task: JSONDecodeError"
TimeoutError   == "Task execution timeout (exceeded 10 minutes)"

NullResult == [null |-> TRUE]

Take(s, n) == SubSeq(s, 1, IF Len(s) < n THEN Len(s) ELSE n)

is_running_never(task_id) == FALSE

\* one flag for all tasks in place of one per task id
is_running_any(task_id) == \E t \in TaskIds : running_tasks[t]

\* the concurrency check of _execute_task_impl
is_running(task_id) == running_tasks[task_id]

acquire(rt, task_id) == [rt EXCEPT ![task_id] = TRUE]
release_forgotten(rt, task_id) == rt

release(rt, task_id) == [rt EXCEPT ![task_id] = FALSE]

early_execution_failed(task_id, status, error) ==
    [id |-> LoopTime, taskId |-> task_id, startTime |-> Now, endTime |-> Now,
     status |-> "failed", error |-> error]

\* the records _execute_task_impl returns without running the agent
early_execution(task_id, status, error) ==
    [id |-> LoopTime, taskId |-> task_id, startTime |-> Now, endTime |-> Now,
     status |-> status, error |-> error]

running_execution_scheduled(task_id, manual) ==
    [id |-> LoopTime, taskId |-> task_id, startTime |-> Now, endTime |-> Null,
     status |-> "running", result |-> NullResult, error |-> NullStr, manual |-> FALSE]

\* the record of an execution that starts
running_execution(task_id, manual) ==
    [id |-> LoopTime, taskId |-> task_id, startTime |-> Now, endTime |-> Null,
     status |-> "running", result |-> NullResult, error |-> NullStr, manual |-> manual]

on_success_no_result(execution, messages, summary) ==
    [execution EXCEPT !.endTime = Now, !.status = "success"]

\* the three ways the try block ends
on_success(execution, messages, summary) ==
    [execution EXCEPT !.endTime = Now, !.status = "success",
        !.result = [messages |-> messages,
                    summary |-> IF summary # <<>> THEN summary ELSE DefaultSummary]]

on_timeout_no_end(execution) ==
    [execution EXCEPT !.status = "failed", !.error = TimeoutError]

on_timeout(execution) ==
    [execution EXCEPT !.endTime = Now, !.status = "failed", !.error = TimeoutError]

on_exception_still_running(execution, description) ==
    [execution EXCEPT !.error = description]

on_exception_generic(execution, description) ==
    [execution EXCEPT !.endTime = Now, !.status = "failed", !.error = "Execution failed"]

on_exception(execution, description) ==
    [execution EXCEPT !.endTime = Now, !.status = "failed", !.error = description]

\* the value of `returned` after a call of _execute_task_impl
Return(call, manual, execution, invoked) ==
    [op |-> "execute", call |-> call, manual |-> manual,
     execution |-> execution, agent_invoked |-> invoked]

\* _execute_task_impl from its entry to its first suspension point, for the
\* call `call`; `rest` are the other calls in flight.
Enter(call, task_id, manual, rest) ==
    IF is_running(task_id)
    THEN /\ returned' = Return(call, manual,
                               early_execution(task_id, "skipped", AlreadyRunning), FALSE)
         /\ coroutines' = rest
         /\ UNCHANGED <<task_files, execution_files, running_tasks>>
    ELSE IF task_files[task_id] = NoFile
    THEN /\ returned' = Return(call, manual,
                               early_execution(task_id, "failed", TaskNotFound), FALSE)
         /\ running_tasks' = release(acquire(running_tasks, task_id), task_id)
         /\ coroutines' = rest
         /\ UNCHANGED <<task_files, execution_files>>
    ELSE IF task_files[task_id] = CorruptFile
    THEN /\ returned' = Return(call, manual,
                               early_execution(task_id, "failed", LoadFailed), FALSE)
         /\ running_tasks' = release(acquire(running_tasks, task_id), task_id)
         /\ coroutines' = rest
         /\ UNCHANGED <<task_files, execution_files>>
    ELSE LET execution == running_execution(task_id, manual)
         IN /\ running_tasks' = acquire(running_tasks, task_id)
            /\ execution_files' = save_execution(execution_files, task_id, execution)
            /\ coroutines' = rest \cup
                   { [call |-> call, task_id |-> task_id, manual |-> manual,
                      pc |-> "streaming", task |-> task_files[task_id],
                      execution |-> execution, received |-> 0,
                      messages |-> <<>>, summary |-> <<>>] }
            /\ UNCHANGED <<task_files, returned>>

\* execute_task(task_id): the manual trigger of the scheduler
execute_task(task_id) ==
    /\ started
    /\ nops < MaxOps
    /\ nops' = nops + 1
    /\ Enter(nops + 1, task_id, TRUE, coroutines)
    /\ UNCHANGED <<clock, started, jobs>>

\* The scheduler finds the job of task_id due: it advances the job's next
\* run time and, unless an instance of the job is still running
\* (max_instances=1), hands a call of _execute_task_impl to the event loop.
Fire(task_id) ==
    /\ started
    /\ jobs[task_id] # NoJob
    /\ jobs[task_id].next_run_time # Null
    /\ jobs[task_id].next_run_time <= Now
    /\ nops < MaxOps
    /\ jobs' = [jobs EXCEPT ![task_id].next_run_time =
                    get_next_fire_time(jobs[task_id].trigger, Now)]
    /\ IF \E c \in coroutines : c.task_id = task_id /\ ~c.manual
       THEN UNCHANGED <<coroutines, nops>>
       ELSE /\ nops' = nops + 1
            /\ coroutines' = coroutines \cup
                   { [call |-> nops + 1, task_id |-> task_id, manual |-> FALSE,
                      pc |-> "submitted", task |-> NoFile, execution |-> NoFile,
                      received |-> 0, messages |-> <<>>, summary |-> <<>>] }
    /\ UNCHANGED <<clock, started, task_files, execution_files, running_tasks, returned>>

\* the event loop starts a submitted call
RunJob(c) ==
    /\ c.pc = "submitted"
    /\ Enter(c.call, c.task_id, FALSE, coroutines \ {c})
    /\ UNCHANGED <<clock, started, jobs, nops>>

\* The agent stream yields one more fragment: the collection loop keeps the
\* text of a fragment that has one.
AgentYield(c, fragment) ==
    /\ c.pc = "streaming"
    /\ c.received < MaxMsgs
    /\ coroutines' = (coroutines \ {c}) \cup
           { IF fragment.text # <<>>
             THEN [c EXCEPT !.received = @ + 1,
                            !.messages = Append(@, [role |-> "assistant",
                                                    content |-> fragment.text]),
                            !.summary = Take(fragment.text, SummaryLen)]
             ELSE [c EXCEPT !.received = @ + 1] }
    /\ UNCHANGED <<clock, started, task_files, execution_files, running_tasks, jobs,
                   nops, returned>>

\* a finally block that releases the guard without writing the final record
Finish_unsaved(c, execution) ==
    /\ UNCHANGED execution_files
    /\ running_tasks' = release(running_tasks, c.task_id)
    /\ coroutines' = coroutines \ {c}
    /\ returned' = Return(c.call, c.manual, execution, TRUE)

\* the finally block and the return of _execute_task_impl
Finish(c, execution) ==
    /\ execution_files' = save_execution(execution_files, c.task_id, execution)
    /\ running_tasks' = release(running_tasks, c.task_id)
    /\ coroutines' = coroutines \ {c}
    /\ returned' = Return(c.call, c.manual, execution, TRUE)

\* the agent stream ends
AgentEnd(c) ==
    /\ c.pc = "streaming"
    /\ task_files' = save_task(task_files, [c.task EXCEPT !.lastExecutedAt = Now])
    /\ Finish(c, on_success(c.execution, c.messages, c.summary))
    /\ UNCHANGED <<clock, started, jobs, nops>>

\* the agent stream raises asyncio.TimeoutError
AgentTimeout(c) ==
    /\ c.pc = "streaming"
    /\ Finish(c, on_timeout(c.execution))
    /\ UNCHANGED <<clock, started, task_files, jobs, nops>>

AgentError_unschedules(c, description) ==
    /\ c.pc = "streaming"
    /\ Finish(c, on_exception(c.execution, description))
    /\ jobs' = remove_task(jobs, c.task_id)
    /\ UNCHANGED <<clock, started, task_files, nops>>

\* the agent stream raises another exception
AgentError(c, description) ==
    /\ c.pc = "streaming"
    /\ Finish(c, on_exception(c.execution, description))
    /\ UNCHANGED <<clock, started, task_files, jobs, nops>>

\* ------------------------------------------------- server.py: the handlers
\* what a handler answers: the operation and the HTTP status
Response(op, task_id, status) == [op |-> op, status |-> status]

\* what a handler that wrote something answers: also the order in which it
\* wrote to the task store ("store"), changed the job store ("registry") and
\* removed the execution files ("executions")
Changed(op, task_id, status, effects) ==
    [op |-> op, status |-> status, effects |-> effects]

Written(next_run) == IF next_run # Null THEN <<"store">> ELSE <<>>

\* the writes of add_task, remove_task and update_task, in their order
add_task_effects(js, task) ==
    IF add_task(js, task_files, task).raised THEN <<>>
    ELSE <<"registry">> \o
         Written(get_next_run_time(add_task(js, task_files, task).jobs, task.id))

remove_task_effects(js, task_id) ==
    IF js[task_id] # NoJob THEN <<"registry">> ELSE <<>>

update_task_effects(js, task) ==
    remove_task_effects(js, task.id) \o
    (IF task.enabled THEN add_task_effects(remove_task(js, task.id), task) ELSE <<>>)

\* what a client may send as ScheduledTaskUpdate: the fields that are not None
Updates ==
    { [cronExpression |-> c] : c \in CronExprs } \cup
    { [enabled |-> b] : b \in BOOLEAN } \cup
    { [name |-> "n2"] }

\* POST /api/scheduled-tasks, for an agent that exists
create_scheduled_task(name, cron, enabled) ==
    /\ started
    /\ nops < MaxOps
    /\ nops' = nops + 1
    /\ IF ~validate_cron_expression(cron)
       THEN /\ returned' = Response("create", Null, 400)
            /\ UNCHANGED <<task_files, jobs>>
       ELSE LET task_id == LoopTime
                task_data == [id |-> task_id, name |-> name, cronExpression |-> cron,
                              enabled |-> enabled, createdAt |-> Now, updatedAt |-> Now,
                              lastExecutedAt |-> Null, nextExecutionAt |-> Null]
                saved == save_task(task_files, task_data)
                added == add_task(jobs, saved, task_data)
                next_run == get_next_run_time(added.jobs, task_id)
            IN IF ~enabled
               THEN /\ task_files' = saved
                    /\ returned' = Changed("create", task_id, 200, <<"store">>)
                    /\ UNCHANGED jobs
               ELSE IF added.raised
               THEN /\ task_files' = added.files
                    /\ jobs' = added.jobs
                    /\ returned' = Changed("create", task_id, 500, <<"store">>)
               ELSE /\ jobs' = added.jobs
                    /\ task_files' =
                          IF next_run # Null
                          THEN save_task(added.files,
                                         [added.task EXCEPT !.nextExecutionAt = next_run])
                          ELSE added.files
                    /\ returned' = Changed("create", task_id, 200,
                                       <<"store">> \o add_task_effects(jobs, task_data)
                                                  \o Written(next_run))
    /\ UNCHANGED <<clock, started, execution_files, running_tasks, coroutines>>

\* PUT /api/scheduled-tasks/{task_id}
update_scheduled_task(task_id, update) ==
    /\ started
    /\ nops < MaxOps
    /\ nops' = nops + 1
    /\ IF task_files[task_id] = NoFile
       THEN /\ returned' = Response("update", task_id, 404)
            /\ UNCHANGED <<task_files, jobs>>
       ELSE IF task_files[task_id] = CorruptFile
       THEN /\ returned' = Response("update", task_id, 500)
            /\ UNCHANGED <<task_files, jobs>>
       ELSE IF Has(update, "cronExpression") /\ ~validate_cron_expression(update.cronExpression)
       THEN /\ returned' = Response("update", task_id, 400)
            /\ UNCHANGED <<task_files, jobs>>
       ELSE LET loaded == task_files[task_id]
                task == [loaded EXCEPT
                           !.name = IF Has(update, "name") THEN update.name ELSE @,
                           !.cronExpression = IF Has(update, "cronExpression")
                                              THEN update.cronExpression ELSE @,
                           !.enabled = IF Has(update, "enabled") THEN update.enabled ELSE @,
                           !.updatedAt = Now]
                saved == save_task(task_files, task)
                updated == update_task(jobs, saved, task)
                next_run == get_next_run_time(updated.jobs, task_id)
            IN IF updated.raised
               THEN /\ task_files' = updated.files
                    /\ jobs' = updated.jobs
                    /\ returned' = Changed("update", task_id, 500,
                                       <<"store">> \o update_task_effects(jobs, task))
               ELSE /\ jobs' = updated.jobs
                    /\ task_files' =
                          IF task.enabled
                          THEN IF next_run # Null
                               THEN save_task(updated.files,
                                        [updated.task EXCEPT !.nextExecutionAt = next_run])
                               ELSE updated.files
                          ELSE save_task(updated.files,
                                        [updated.task EXCEPT !.nextExecutionAt = Null])
                    /\ returned' = Changed("update", task_id, 200,
                                       <<"store">> \o update_task_effects(jobs, task) \o
                                       (IF task.enabled THEN Written(next_run)
                                        ELSE <<"store">>))
    /\ UNCHANGED <<clock, started, execution_files, running_tasks, coroutines>>

\* DELETE /api/scheduled-tasks/{task_id}
delete_scheduled_task(task_id) ==
    /\ started
    /\ nops < MaxOps
    /\ nops' = nops + 1
    /\ IF task_files[task_id] = NoFile
       THEN /\ returned' = Response("delete", task_id, 404)
            /\ UNCHANGED <<task_files, execution_files, jobs>>
       ELSE /\ jobs' = remove_task(jobs, task_id)
            /\ task_files' = [task_files EXCEPT ![task_id] = NoFile]
            /\ execution_files' = [execution_files EXCEPT ![task_id] = {}]
            /\ returned' = Changed("delete", task_id, 200,
                               remove_task_effects(jobs, task_id) \o <<"store">> \o
                               (IF execution_files[task_id] # {}
                                THEN <<"executions">> ELSE <<>>))
    /\ UNCHANGED <<clock, started, running_tasks, coroutines>>

\* an enable handler without the early return for a task that is enabled
enable_scheduled_task_again(task_id) ==
    /\ started
    /\ nops < MaxOps
    /\ nops' = nops + 1
    /\ IsTask(task_files[task_id])
    /\ LET task == [task_files[task_id] EXCEPT !.enabled = TRUE, !.updatedAt = Now]
           added == add_task(jobs, save_task(task_files, task), task)
       IN /\ jobs' = added.jobs
          /\ task_files' = added.files
          /\ returned' = Changed("enable", task_id, 200,
                             <<"store">> \o add_task_effects(jobs, task))
    /\ UNCHANGED <<clock, started, execution_files, running_tasks, coroutines>>

\* POST /api/scheduled-tasks/{task_id}/enable
enable_scheduled_task(task_id) ==
    /\ started
    /\ nops < MaxOps
    /\ nops' = nops + 1
    /\ IF task_files[task_id] = NoFile
       THEN /\ returned' = Response("enable", task_id, 404)
            /\ UNCHANGED <<task_files, jobs>>
       ELSE IF task_files[task_id] = CorruptFile
       THEN /\ returned' = Response("enable", task_id, 500)
            /\ UNCHANGED <<task_files, jobs>>
       ELSE IF task_files[task_id].enabled
       THEN /\ returned' = Response("enable", task_id, 200)
            /\ UNCHANGED <<task_files, jobs>>
       ELSE LET task == [task_files[task_id] EXCEPT !.enabled = TRUE, !.updatedAt = Now]
                saved == save_task(task_files, task)
                added == add_task(jobs, saved, task)
                next_run == get_next_run_time(added.jobs, task_id)
            IN IF added.raised
               THEN /\ task_files' = added.files
                    /\ jobs' = added.jobs
                    /\ returned' = Changed("enable", task_id, 500, <<"store">>)
               ELSE /\ jobs' = added.jobs
                    /\ task_files' =
                          IF next_run # Null
                          THEN save_task(added.files,
                                         [added.task EXCEPT !.nextExecutionAt = next_run])
                          ELSE added.files
                    /\ returned' = Changed("enable", task_id, 200,
                                       <<"store">> \o add_task_effects(jobs, task)
                                                  \o Written(next_run))
    /\ UNCHANGED <<clock, started, execution_files, running_tasks, coroutines>>

\* POST /api/scheduled-tasks/{task_id}/disable
disable_scheduled_task(task_id) ==
    /\ started
    /\ nops < MaxOps
    /\ nops' = nops + 1
    /\ IF task_files[task_id] = NoFile
       THEN /\ returned' = Response("disable", task_id, 404)
            /\ UNCHANGED <<task_files, jobs>>
       ELSE IF task_files[task_id] = CorruptFile
       THEN /\ returned' = Response("disable", task_id, 500)
            /\ UNCHANGED <<task_files, jobs>>
       ELSE IF ~task_files[task_id].enabled
       THEN /\ returned' = Response("disable", task_id, 200)
            /\ UNCHANGED <<task_files, jobs>>
       ELSE /\ task_files' = save_task(task_files,
                                [task_files[task_id] EXCEPT !.enabled = FALSE,
                                     !.updatedAt = Now, !.nextExecutionAt = Null])
            /\ jobs' = remove_task(jobs, task_id)
            /\ returned' = Changed("disable", task_id, 200,
                               <<"store">> \o remove_task_effects(jobs, task_id))
    /\ UNCHANGED <<clock, started, execution_files, running_tasks, coroutines>>

\* POST /api/scheduled-tasks/{task_id}/trigger
trigger_scheduled_task(task_id) ==
    /\ started
    /\ IF task_files[task_id] = NoFile
       THEN /\ returned' = Response("trigger", task_id, 404)
            /\ UNCHANGED <<task_files, execution_files, running_tasks, coroutines, nops>>
       ELSE IF task_files[task_id] = CorruptFile
       THEN /\ returned' = Response("trigger", task_id, 500)
            /\ UNCHANGED <<task_files, execution_files, running_tasks, coroutines, nops>>
       ELSE /\ nops < MaxOps
            /\ nops' = nops + 1
            /\ Enter(nops + 1, task_id, TRUE, coroutines)
    /\ UNCHANGED <<clock, started, jobs>>

\* ------------------------------------------------------- start and the clock
Loadable_or_abort(doc) ==
    /\ IsTask(doc) /\ doc.enabled /\ ~add_task(jobs, task_files, doc).raised
    /\ \A u \in TaskIds :
          /\ task_files[u] # CorruptFile
          /\ (IsTask(task_files[u]) /\ task_files[u].enabled)
                => ~add_task(jobs, task_files, task_files[u]).raised

\* start(): every task file that loads, is enabled and whose expression
\* parses gets a job and its nextExecutionAt; any other file is skipped.
Loadable(doc) ==
    IsTask(doc) /\ doc.enabled /\ ~add_task(jobs, task_files, doc).raised

start ==
    /\ ~started
    /\ started' = TRUE
    /\ jobs' = [t \in TaskIds |->
                  IF Loadable(task_files[t])
                  THEN add_task(jobs, task_files, task_files[t]).jobs[t] ELSE jobs[t]]
    /\ task_files' = [t \in TaskIds |->
                  IF Loadable(task_files[t])
                  THEN add_task(jobs, task_files, task_files[t]).files[t] ELSE task_files[t]]
    /\ returned' = Response("start", Null, 200)
    /\ UNCHANGED <<clock, execution_files, running_tasks, coroutines, nops>>

\* Time passes.  The scheduler wakes up when a job is due, so the clock does
\* not pass a due job before the scheduler has processed it.
Tick ==
    /\ clock < MaxClock
    /\ \A t \in TaskIds :
          jobs[t] # NoJob => jobs[t].next_run_time = Null \/ jobs[t].next_run_time > Now
    /\ clock' = clock + 1
    /\ UNCHANGED <<started, task_files, execution_files, running_tasks, jobs,
                   coroutines, nops, returned>>

\* ------------------------------------------------------------ specification
\* A task file left by an earlier run of the server, under id 0.  The tasks
\* directory holds no file, an unreadable file or an enabled task.
StoredTask(name, cron, enabled, next) ==
    [id |-> 0, name |-> name, cronExpression |-> cron, enabled |-> enabled,
     createdAt |-> 0, updatedAt |-> 0, lastExecutedAt |-> Null, nextExecutionAt |-> next]

InitialFiles ==
    { NoFile, CorruptFile, StoredTask("n1", EveryMinute, TRUE, 0) }

Init ==
    /\ clock = 1
    /\ started = FALSE
    /\ \E doc \in InitialFiles :
          task_files = [t \in TaskIds |-> IF t = 0 THEN doc ELSE NoFile]
    /\ execution_files = [t \in TaskIds |-> {}]
    /\ running_tasks = [t \in TaskIds |-> FALSE]
    /\ jobs = [t \in TaskIds |-> NoJob]
    /\ coroutines = {}
    /\ nops = 0
    /\ returned = Response("init", Null, 200)

Next ==
    \/ start
    \/ Tick
    \/ \E n \in Names, c \in CronExprs, e \in BOOLEAN : create_scheduled_task(n, c, e)
    \/ \E t \in TaskIds, u \in Updates : update_scheduled_task(t, u)
    \/ \E t \in TaskIds : delete_scheduled_task(t)
    \/ \E t \in TaskIds : enable_scheduled_task(t)
    \/ \E t \in TaskIds : disable_scheduled_task(t)
    \/ \E t \in TaskIds : trigger_scheduled_task(t)
    \/ \E t \in TaskIds : execute_task(t)
    \/ \E t \in TaskIds : Fire(t)
    \/ \E c \in coroutines : RunJob(c)
    \/ \E c \in coroutines, f \in Fragments : AgentYield(c, f)
    \/ \E c \in coroutines : AgentEnd(c)
    \/ \E c \in coroutines : AgentTimeout(c)
    \/ \E c \in coroutines, d \in Failures : AgentError(c, d)

Spec == Init /\ [][Next]_vars

\* ------------------------------------------------------------------ claims
\* a call of _execute_task_impl for task t is past the concurrency check
InFlight(t) == \E c \in coroutines : c.task_id = t /\ c.pc = "streaming"

\* in this step a call of _execute_task_impl for task t runs from its entry
Enters(t) ==
    \/ execute_task(t)
    \/ trigger_scheduled_task(t) /\ nops' = nops + 1
    \/ \E c \in coroutines : c.task_id = t /\ RunJob(c)

\* the execution file of task t with the id of `execution`
Persisted(efiles, t, execution) == {e \in efiles[t] : e.id = execution.id}

IsReturn(r) == r.op = "execute"

\* C1: for every task at most one call of _execute_task_impl is past the
\* concurrency check, and at most one execution file has status running.
C1_SingleFlight ==
    \A t \in TaskIds :
        /\ Cardinality({c \in coroutines : c.task_id = t /\ c.pc = "streaming"}) <= 1
        /\ Cardinality({e \in execution_files[t] : e.status = "running"}) <= 1

\* a scheduled fire and a manual trigger of one task met: one is in flight
\* and the other was turned away
C1_Witness ==
    /\ IsReturn(returned)
    /\ returned.execution.status = "skipped"
    /\ \E c \in coroutines :
          /\ c.task_id = returned.execution.taskId
          /\ c.pc = "streaming"
          /\ c.manual # returned.manual

\* the step of C2 for task t
C2_SkipStep(t) ==
    (InFlight(t) /\ Enters(t)) =>
        /\ IsReturn(returned')
        /\ returned'.execution.taskId = t
        /\ returned'.execution.status = "skipped"
        /\ returned'.execution.error = AlreadyRunning
        /\ ~returned'.agent_invoked
        /\ coroutines' \subseteq coroutines
        /\ {c \in coroutines' : c.pc = "streaming"} = {c \in coroutines : c.pc = "streaming"}
        /\ UNCHANGED <<running_tasks, task_files, execution_files>>

\* C2: a call of _execute_task_impl that starts while a call for the same
\* task is in flight returns in the same step an execution with status
\* skipped and the error "Task is already running": the agent is not
\* invoked, the call is not kept waiting, and the call in flight, the guard
\* and the files are left as they were.
C2_SkippedWhileRunning == [][\A t \in TaskIds : C2_SkipStep(t)]_vars

\* two manual calls for one task: the first is in flight, the second was skipped
C2_Witness ==
    /\ IsReturn(returned)
    /\ returned.manual
    /\ returned.execution.status = "skipped"
    /\ returned.execution.error = AlreadyRunning
    /\ \E c \in coroutines :
          /\ c.task_id = returned.execution.taskId
          /\ c.pc = "streaming"
          /\ c.manual
          /\ c.call < returned.call

\* C3: the guard of a task is busy exactly while a call for the task is past
\* the concurrency check and has not returned: each of the paths (task file
\* missing, task file unreadable, stream ended, timeout, other failure)
\* leaves the guard idle.
C3_GuardReleased ==
    \A t \in TaskIds : running_tasks[t] <=> InFlight(t)

\* a call whose agent failed has returned and the guard of its task is idle
C3_Witness ==
    /\ IsReturn(returned)
    /\ returned.agent_invoked
    /\ returned.execution.status = "failed"
    /\ returned.execution.error \in Failures
    /\ ~running_tasks[returned.execution.taskId]
    /\ ~InFlight(returned.execution.taskId)

\* the steps of C4: the timeout of call c, and the next call for task t
C4_TimeoutStep(c) ==
    AgentTimeout(c) =>
        /\ \E e \in Persisted(execution_files', c.task_id, c.execution) :
              /\ e.status = "failed"
              /\ e.error = TimeoutError
              /\ e.endTime # Null
              /\ returned' = Return(c.call, c.manual, e, TRUE)
        /\ ~running_tasks'[c.task_id]

C4_NextStep(t) ==
    ( /\ IsReturn(returned)
      /\ returned.execution.taskId = t
      /\ returned.execution.error = TimeoutError
      /\ ~InFlight(t)
      /\ Enters(t) ) =>
        ~(IsReturn(returned') /\ returned'.execution.status = "skipped")

\* C4: when the agent stream raises a timeout, the execution file is written
\* with status failed, the timeout error and an endTime, that record is
\* returned and the guard is released; and a call for the same task that
\* starts next is not skipped.
C4_Timeout ==
    [][ /\ \A c \in coroutines : C4_TimeoutStep(c)
        /\ \A t \in TaskIds : C4_NextStep(t) ]_vars

\* after a timeout of a task a later call for the task is running
C4_Witness ==
    /\ IsReturn(returned)
    /\ returned.execution.error = TimeoutError
    /\ returned.execution.endTime # Null
    /\ \E c \in coroutines :
          /\ c.task_id = returned.execution.taskId
          /\ c.pc = "streaming"
          /\ c.call > returned.call

\* the step of C5 for call c failing with description d
C5_FailureStep(c, d) ==
    AgentError(c, d) =>
        \E e \in Persisted(execution_files', c.task_id, c.execution) :
            /\ e.status = "failed"
            /\ e.endTime # Null
            /\ e.error = d
            /\ returned' = Return(c.call, c.manual, e, TRUE)

\* C5: when the agent stream raises another exception, the execution file is
\* written with status failed, an endTime and the exception's description as
\* error, and that record is what the call returns.
C5_Failure == [][\A c \in coroutines, d \in Failures : C5_FailureStep(c, d)]_vars

\* a failed execution with the agent's description is on file
C5_Witness ==
    /\ IsReturn(returned)
    /\ returned.execution.status = "failed"
    /\ returned.execution.error \in Failures
    /\ returned.execution \in execution_files[returned.execution.taskId]

\* the step of C6 for call c
C6_SuccessStep(c) ==
    AgentEnd(c) =>
        \E e \in Persisted(execution_files', c.task_id, c.execution) :
            /\ e.status = "success"
            /\ e.endTime # Null
            /\ e.endTime >= e.startTime
            /\ e.result # NullResult
            /\ e.error = NullStr

\* C6: when the agent stream ends, the execution file is written with status
\* success, an endTime not before startTime, a result and no error.
C6_Success == [][\A c \in coroutines : C6_SuccessStep(c)]_vars

\* a successful execution that collected a text fragment is on file
C6_Witness ==
    \E t \in TaskIds : \E e \in execution_files[t] :
        /\ e.status = "success"
        /\ e.result # NullResult
        /\ Len(e.result.messages) > 0

\* the step of C7 for task t
C7_SkipStep(t) ==
    (InFlight(t) /\ Enters(t)) =>
        /\ IsReturn(returned')
        /\ \E e \in Persisted(execution_files', t, returned'.execution) :
              e.status = "skipped"

\* C7: the skipped execution a refused call returns is also written to the
\* execution files of the task.
C7_SkippedPersisted == [][\A t \in TaskIds : C7_SkipStep(t)]_vars

\* the step of C8 for task id t
C8_NotFoundStep(t) ==
    (~is_running(t) /\ task_files[t] = NoFile /\ Enters(t)) =>
        /\ IsReturn(returned')
        /\ returned'.execution.status = "failed"
        /\ returned'.execution.error = TaskNotFound
        /\ ~returned'.agent_invoked
        /\ ~running_tasks'[t]
        /\ returned'.execution \in execution_files'[t]

\* C8: a call for a task id without a task file returns a failed execution
\* with the error "Task not found", does not invoke the agent, leaves the
\* guard of the id idle, and writes that execution to the execution files.
C8_NotFoundPersisted == [][\A t \in TaskIds : C8_NotFoundStep(t)]_vars

\* C9: once started and with no call in flight, a stored task has a
\* nextExecutionAt exactly if it is enabled and has a job.
C9_NextExecutionIff ==
    (started /\ coroutines = {}) =>
        \A t \in TaskIds :
            IsTask(task_files[t]) =>
                ( task_files[t].nextExecutionAt # Null
                    <=> (task_files[t].enabled /\ jobs[t] # NoJob) )

\* the step of C10 for task t: an update request that succeeded changed the
\* stored cron expression of t and left t enabled
C10_UpdateStep(t) ==
    ( /\ returned'.op = "update"
      /\ returned'.status = 200
      /\ nops' = nops + 1
      /\ IsTask(task_files[t])
      /\ IsTask(task_files'[t])
      /\ task_files'[t].cronExpression # task_files[t].cronExpression
      /\ task_files'[t].enabled ) =>
        /\ jobs'[t] # NoJob
        /\ jobs'[t].trigger = task_files'[t].cronExpression
        /\ jobs'[t].next_run_time = get_next_fire_time(task_files'[t].cronExpression, Now)
        /\ task_files'[t].nextExecutionAt = jobs'[t].next_run_time

\* C10: an update that changes the cron expression of a task and leaves it
\* enabled ends with the task's job carrying the new expression and with the
\* stored nextExecutionAt equal to the next fire time of the new expression.
C10_UpdateCron == [][\A t \in TaskIds : C10_UpdateStep(t)]_vars

\* the stored task "n1", enabled and run every minute when the server
\* started, is hourly after an update: its job and its nextExecutionAt name
\* the coming hour, not the coming minute
C10_Witness ==
    /\ returned.op = "update"
    /\ returned.status = 200
    /\ IsTask(task_files[0])
    /\ task_files[0].name = "n1"
    /\ task_files[0].enabled
    /\ task_files[0].cronExpression = Hourly
    /\ task_files[0].updatedAt = clock
    /\ jobs[0] # NoJob
    /\ jobs[0].trigger = Hourly
    /\ task_files[0].nextExecutionAt = 60
    /\ get_next_fire_time(EveryMinute, clock) # 60

\* ------------------------------------------- the scheduler called directly
\* Task files left in the tasks directory by earlier runs or written by
\* hand: per id no file, an unreadable file, or a task document.
StoredTaskAt(task_id, cron, enabled) ==
    [StoredTask("n1", cron, enabled, Null) EXCEPT !.id = task_id]

StoredDocs(task_id) ==
    { NoFile, CorruptFile,
      StoredTaskAt(task_id, EveryMinute, TRUE),
      StoredTaskAt(task_id, Hourly, FALSE),
      StoredTaskAt(task_id, MinuteOutOfRange, TRUE) }

RegistryInit ==
    /\ clock = 1
    /\ started = FALSE
    /\ task_files \in [TaskIds -> UNION { StoredDocs(t) : t \in TaskIds }]
    /\ \A t \in TaskIds : task_files[t] \in StoredDocs(t)
    /\ execution_files = [t \in TaskIds |-> {}]
    /\ running_tasks = [t \in TaskIds |-> FALSE]
    /\ jobs = [t \in TaskIds |-> NoJob]
    /\ coroutines = {}
    /\ nops = 0
    /\ returned = Response("init", Null, 200)

\* await scheduler.add_task(task): the caller passes the stored task, with
\* the cron expression `cron`
call_add_task(task_id, cron) ==
    /\ started
    /\ IsTask(task_files[task_id])
    /\ LET task  == [task_files[task_id] EXCEPT !.cronExpression = cron]
           added == add_task(jobs, task_files, task)
       IN /\ jobs' = added.jobs
          /\ task_files' = added.files
          /\ returned' = [op |-> "add_task", task_id |-> task_id, cron |-> cron,
                          raised |-> added.raised]
    /\ UNCHANGED <<clock, started, execution_files, running_tasks, coroutines, nops>>

\* scheduler.validate_cron_expression(cron)
call_validate_cron_expression(cron) ==
    /\ returned' = [op |-> "validate", cron |-> cron,
                    valid |-> validate_cron_expression(cron)]
    /\ UNCHANGED <<clock, started, task_files, execution_files, running_tasks, jobs,
                   coroutines, nops>>

RegistryNext ==
    \/ start
    \/ \E t \in TaskIds :
          \E cron \in MalformedCronExprs \cup
                      (IF IsTask(task_files[t]) THEN {task_files[t].cronExpression} ELSE {}) :
              call_add_task(t, cron)
    \/ \E cron \in ValidCronExprs \cup MalformedCronExprs : call_validate_cron_expression(cron)

RegistrySpec == RegistryInit /\ [][RegistryNext]_vars

\* the step of C11: add_task was called with a malformed expression
C11_AddStep ==
    (returned'.op = "add_task" /\ returned'.cron \in MalformedCronExprs) =>
        /\ returned'.raised
        /\ UNCHANGED <<jobs, task_files>>

C11_ValidateStep ==
    (returned'.op = "validate" /\ returned'.cron \in MalformedCronExprs) =>
        /\ ~returned'.valid
        /\ UNCHANGED <<jobs, task_files>>

\* C11: validate_cron_expression is false for every malformed expression
\* (four or six fields, minute 60, a field that does not parse), and add_task
\* with such an expression raises and leaves the job store and the task
\* files as they were.
C11_Malformed ==
    [][ /\ \A cron \in MalformedCronExprs : ~validate_cron_expression(cron)
        /\ C11_AddStep
        /\ C11_ValidateStep ]_vars

\* add_task was called for a task that has a job, with an expression of six
\* fields: it raised, and the job and the file of the task are still there
C11_Witness ==
    /\ returned.op = "add_task"
    /\ returned.cron = SixFields
    /\ returned.raised
    /\ jobs[returned.task_id] # NoJob
    /\ jobs[returned.task_id].trigger = EveryMinute
    /\ task_files[returned.task_id].cronExpression = EveryMinute

\* task t is stored disabled, with no nextExecutionAt and no job
Unscheduled(t) ==
    /\ IsTask(task_files[t])
    /\ ~task_files[t].enabled
    /\ task_files[t].nextExecutionAt = Null
    /\ jobs[t] = NoJob

\* this step is a request that may enable, replace or remove task t
Reschedules(t) ==
    \/ enable_scheduled_task(t)
    \/ delete_scheduled_task(t)
    \/ \E u \in Updates : update_scheduled_task(t, u)
    \/ LoopTime = t /\ \E n \in Names, c \in CronExprs, e \in BOOLEAN :
                          create_scheduled_task(n, c, e)

\* the steps of C12 for task t: the disable request, any step before the
\* next request that reschedules t, and the enable request
C12_DisableStep(t) ==
    (IsTask(task_files[t]) /\ disable_scheduled_task(t)) => Unscheduled(t)'

C12_BetweenStep(t) ==
    (Unscheduled(t) /\ ~Reschedules(t)) => Unscheduled(t)'

C12_EnableStep(t) ==
    (Unscheduled(t) /\ enable_scheduled_task(t)) =>
        /\ jobs'[t] # NoJob
        /\ jobs'[t].trigger = task_files[t].cronExpression
        /\ task_files'[t].cronExpression = task_files[t].cronExpression
        /\ task_files'[t].nextExecutionAt # Null

\* C12: a disable request leaves the task without a job and with a null
\* nextExecutionAt; the task stays so in every state until a request enables,
\* updates, deletes or replaces it; and an enable request then registers the
\* job of the unchanged cron expression and stores a nextExecutionAt.
C12_DisableEnable ==
    [][\A t \in TaskIds : C12_DisableStep(t) /\ C12_BetweenStep(t) /\ C12_EnableStep(t)]_vars

\* nothing of task t exists: no task file, no execution file, no job
Gone(t) ==
    /\ task_files[t] = NoFile
    /\ execution_files[t] = {}
    /\ jobs[t] = NoJob

\* this step is a create request that stores a task under the id t
Creates(t) ==
    LoopTime = t /\ \E n \in Names, c \in CronExprs, e \in BOOLEAN :
                       create_scheduled_task(n, c, e)

\* the steps of C13 for task t: the delete request, and any later step that
\* is not a create request
C13_DeleteStep(t) ==
    (task_files[t] # NoFile /\ delete_scheduled_task(t)) => Gone(t)'

C13_LaterStep(t) ==
    (Gone(t) /\ ~Creates(t)) => Gone(t)'

\* C13: a delete request leaves no task file, no execution file and no job
\* of the task, and none of them comes back in a later step other than a
\* create request, also when a call of _execute_task_impl for the task was in
\* flight at the delete.
C13_DeleteIsFinal ==
    [][\A t \in TaskIds : C13_DeleteStep(t) /\ C13_LaterStep(t)]_vars

\* the steps of C14: the manual trigger of task t, and the end of the agent
\* invocation of the manual call c
C14_TriggerStep(t) ==
    ( /\ IsTask(task_files[t])
      /\ ~InFlight(t)
      /\ (execute_task(t) \/ trigger_scheduled_task(t)) ) =>
        LET new == execution_files'[t] \ execution_files[t]
        IN /\ Cardinality(new) = 1
           /\ \A e \in new :
                 /\ e.taskId = t
                 /\ e.manual
                 /\ e.status = "running"
                 /\ \E c \in coroutines' :
                       c.execution = e /\ c.manual /\ c.pc = "streaming"
           /\ \A u \in TaskIds \ {t} : execution_files'[u] = execution_files[u]

C14_FinishStep(c) ==
    ( /\ c.manual
      /\ c.pc = "streaming"
      /\ (AgentEnd(c) \/ AgentTimeout(c) \/ \E d \in Failures : AgentError(c, d)) ) =>
        /\ Cardinality(Persisted(execution_files', c.task_id, c.execution)) = 1
        /\ \A e \in Persisted(execution_files', c.task_id, c.execution) :
              /\ e.manual
              /\ e.status \in {"success", "failed"}
              /\ e.startTime = c.execution.startTime
        /\ {e \in execution_files'[c.task_id] : e.id # c.execution.id}
              = {e \in execution_files[c.task_id] : e.id # c.execution.id}

\* C14: a manual trigger of a stored task that has no call in flight writes
\* exactly one new execution file of the task, with manual = true and status
\* running, and when the agent invocation of that call ends, that one file
\* carries status success or failed; the task may be enabled or disabled.
C14_ManualTrigger ==
    [][ /\ \A t \in TaskIds : C14_TriggerStep(t)
        /\ \A c \in coroutines : C14_FinishStep(c) ]_vars

\* a disabled task without a job was triggered by hand: its one execution
\* file is manual and successful
C14_Witness ==
    \E t \in TaskIds :
        /\ IsTask(task_files[t])
        /\ ~task_files[t].enabled
        /\ jobs[t] = NoJob
        /\ Cardinality(execution_files[t]) = 1
        /\ \A e \in execution_files[t] :
              e.manual /\ e.status = "success" /\ e.endTime # Null

\* the step of C15: start()
C15_StartStep ==
    start =>
        \A t \in TaskIds :
            /\ jobs'[t] # NoJob <=>
                  ( /\ IsTask(task_files[t])
                    /\ task_files[t].enabled
                    /\ validate_cron_expression(task_files[t].cronExpression) )
            /\ jobs'[t] # NoJob => jobs'[t].trigger = task_files[t].cronExpression

\* C15: start() registers a job for exactly the task files that load, are
\* enabled and carry an expression that parses: a disabled task gets none,
\* and an unreadable file or an invalid expression costs no other task its job.
C15_StartLoadsEnabled == [][C15_StartStep]_vars

\* start() has run over an unreadable file, an enabled task with an invalid
\* expression and an enabled task with a valid one: only the last has a job
C15_Witness ==
    /\ started
    /\ returned.op = "start"
    /\ \E t \in TaskIds : task_files[t] = CorruptFile /\ jobs[t] = NoJob
    /\ \E t \in TaskIds :
          /\ IsTask(task_files[t]) /\ task_files[t].enabled
          /\ task_files[t].cronExpression = MinuteOutOfRange
          /\ jobs[t] = NoJob
    /\ \E t \in TaskIds :
          /\ IsTask(task_files[t]) /\ task_files[t].enabled
          /\ jobs[t] # NoJob
          /\ task_files[t].nextExecutionAt = jobs[t].next_run_time

\* ------------------------------------------------- stop and process restart
\* the calls the scheduler's executor has handed to the event loop
Scheduled == {c \in coroutines : ~c.manual}

\* stop(): scheduler.shutdown(wait=True), with no await.  The scheduler stops
\* firing and its job store is emptied.  stop() itself changes no call in
\* flight: calls started by a manual trigger are unknown to the scheduler,
\* and what shutdown does to the calls its executor submitted (it cancels
\* their asyncio tasks, or leaves them alone) takes effect only when the
\* event loop runs them again.
stop ==
    /\ started
    /\ nops < MaxOps
    /\ nops' = nops + 1
    /\ started' = FALSE
    /\ jobs' = [t \in TaskIds |-> NoJob]
    /\ returned' = Response("stop", Null, 200)
    /\ UNCHANGED <<clock, task_files, execution_files, running_tasks, coroutines>>

\* After shutdown the event loop runs a call that shutdown has cancelled.
\* A call suspended in the agent stream gets CancelledError there: it
\* passes the except clauses, the finally block writes the execution dict
\* as it is and releases the guard.  A call that had not started never
\* runs.  Nobody awaits the call, so nothing is returned.
Cancelled(c) ==
    /\ ~started
    /\ ~c.manual
    /\ coroutines' = coroutines \ {c}
    /\ IF c.pc = "streaming"
       THEN /\ execution_files' = save_execution(execution_files, c.task_id, c.execution)
            /\ running_tasks' = release(running_tasks, c.task_id)
       ELSE UNCHANGED <<execution_files, running_tasks>>
    /\ UNCHANGED <<clock, started, task_files, jobs, nops, returned>>

kept_running_tasks == running_tasks

\* TaskScheduler.__init__: the guard and the job store of a new scheduler
new_running_tasks == [t \in TaskIds |-> FALSE]

new_jobs == [t \in TaskIds |-> NoJob]

\* The process ends, at any point, and a new one constructs its scheduler:
\* the calls in flight are lost with the old process, the files stay.
restart ==
    /\ nops < MaxOps
    /\ nops' = nops + 1
    /\ started' = FALSE
    /\ running_tasks' = new_running_tasks
    /\ jobs' = new_jobs
    /\ coroutines' = {}
    /\ returned' = Response("restart", Null, 200)
    /\ UNCHANGED <<clock, task_files, execution_files>>

LifecycleNext ==
    \/ Next
    \/ stop
    \/ \E c \in coroutines : Cancelled(c)
    \/ restart

LifecycleSpec == Init /\ [][LifecycleNext]_vars

\* the step of C16: stop()
C16_StopStep ==
    stop =>
        /\ \A t \in TaskIds : jobs'[t] = NoJob
        /\ \A c \in coroutines :
              c.pc = "streaming" =>
                  /\ c \notin coroutines'
                  /\ \E e \in Persisted(execution_files', c.task_id, c.execution) :
                        e.status \in {"success", "failed"}

\* C16: stop() leaves no job that could fire, and when it returns every call
\* that was in flight, scheduled or manual, has finished and its execution
\* file carries status success or failed.
C16_StopDrains == [][C16_StopStep]_vars

\* the steps of C17: the restart of the process, and the start() that follows
C17_RestartStep ==
    restart =>
        /\ \A t \in TaskIds : ~running_tasks'[t] /\ jobs'[t] = NoJob
        /\ UNCHANGED <<task_files, execution_files>>

C17_StartStep ==
    (returned.op = "restart" /\ start) =>
        /\ \A t \in TaskIds :
              /\ ~running_tasks'[t]
              /\ jobs'[t] # NoJob <=> (IsTask(task_files'[t]) /\ task_files'[t].enabled)
        /\ UNCHANGED execution_files

\* C17: after the process restarts and start() has run, the guard of every
\* task is idle and the tasks with a job are exactly the stored tasks with
\* enabled = true, whatever guard and job store the old process held; the
\* execution files, also those with status running, are as the old process
\* left them.
C17_Restart == [][C17_RestartStep /\ C17_StartStep]_vars

\* the process was restarted while a manual call was in flight: start() has
\* run, the task has its job and an idle guard, and the execution file of
\* the lost call still says running
C17_Witness ==
    /\ started
    /\ returned.op = "start"
    /\ coroutines = {}
    /\ \E t \in TaskIds :
          /\ jobs[t] # NoJob
          /\ ~running_tasks[t]
          /\ \E e \in execution_files[t] : e.manual /\ e.status = "running"

\* ------------------------------------------- executions of two stored tasks
\* Two tasks stored by an earlier run, the first enabled and the second
\* disabled; the server is left alone: only the schedule and direct calls of
\* execute_task start executions.
ExecInit ==
    /\ clock = 0
    /\ started = FALSE
    /\ task_files = [t \in TaskIds |->
                       IF t = 0 THEN StoredTaskAt(0, EveryMinute, TRUE)
                       ELSE IF t = 1 THEN StoredTaskAt(1, Hourly, FALSE) ELSE NoFile]
    /\ execution_files = [t \in TaskIds |-> {}]
    /\ running_tasks = new_running_tasks
    /\ jobs = new_jobs
    /\ coroutines = {}
    /\ nops = 0
    /\ returned = Response("init", Null, 200)

ExecNext ==
    \/ start
    \/ Tick
    \/ \E t \in TaskIds : execute_task(t)
    \/ \E t \in TaskIds : Fire(t)
    \/ \E c \in coroutines : RunJob(c)
    \/ \E c \in coroutines, f \in Fragments : AgentYield(c, f)
    \/ \E c \in coroutines : AgentEnd(c)
    \/ \E c \in coroutines : AgentTimeout(c)
    \/ \E c \in coroutines, d \in Failures : AgentError(c, d)

ExecSpec == ExecInit /\ [][ExecNext]_vars

\* what a step leaves alone of every task other than t: its guard, its
\* calls in flight and its files
OthersUntouched(t) ==
    \A u \in TaskIds \ {t} :
        /\ running_tasks'[u] = running_tasks[u]
        /\ {c \in coroutines' : c.task_id = u} = {c \in coroutines : c.task_id = u}
        /\ task_files'[u] = task_files[u]
        /\ execution_files'[u] = execution_files[u]

\* the steps of C18: a call of _execute_task_impl for t starts; the stream of
\* call c yields, ends or fails; the job of t is due; the call the scheduler
\* submitted for t starts
C18_EntryStep(t) ==
    Enters(t) => (jobs' = jobs /\ OthersUntouched(t))

C18_StreamStep(c) ==
    ( \/ \E f \in Fragments : AgentYield(c, f)
      \/ AgentEnd(c)
      \/ AgentTimeout(c)
      \/ \E d \in Failures : AgentError(c, d) ) =>
        (jobs' = jobs /\ OthersUntouched(c.task_id))

C18_FireStep(t) ==
    (Fire(t) /\ ~\E c \in Scheduled : c.task_id = t) =>
        \E c \in coroutines' \ coroutines : c.task_id = t /\ c.pc = "submitted"

C18_RunStep(c) ==
    (RunJob(c) /\ ~InFlight(c.task_id) /\ IsTask(task_files[c.task_id])) =>
        \E d \in coroutines' : d.call = c.call /\ d.pc = "streaming"

\* C18: no step of _execute_task_impl, whatever the outcome, changes the job
\* store, nor the guard, the calls or the files of another task; so after a
\* failed execution the job of the task is as it was, its next fire is
\* submitted and the submitted call runs the agent.
C18_ScheduleUnaffected ==
    [][ /\ \A t \in TaskIds : C18_EntryStep(t) /\ C18_FireStep(t)
        /\ \A c \in coroutines : C18_StreamStep(c) /\ C18_RunStep(c) ]_vars

\* a scheduled execution of a task failed; the job of the task still carries
\* its trigger, and the call of its next fire is running the agent
C18_Witness ==
    /\ IsReturn(returned)
    /\ ~returned.manual
    /\ returned.execution.status = "failed"
    /\ returned.execution.error \in Failures
    /\ jobs[returned.execution.taskId] # NoJob
    /\ jobs[returned.execution.taskId].trigger
          = task_files[returned.execution.taskId].cronExpression
    /\ \E c \in coroutines :
          /\ c.task_id = returned.execution.taskId
          /\ ~c.manual
          /\ c.pc = "streaming"
          /\ c.call > returned.call

\* in the order `effects` every change of the job store comes after a write
\* to the task store
StoreFirst(effects) ==
    \A i \in 1 .. Len(effects) :
        effects[i] = "registry" => \E j \in 1 .. (i - 1) : effects[j] = "store"

\* C19: every request that creates, updates, deletes, enables or disables a
\* task writes its change to the task store before it changes the job store.
C19_StoreFirst ==
    Has(returned, "effects") => StoreFirst(returned.effects)

\* the step of C20 for the execution file e of task t
C20_RecordStep(t, e) ==
    \/ e \in execution_files'[t]
    \/ /\ e.status = "running"
       /\ \E f \in execution_files'[t] :
             /\ f.id = e.id
             /\ f.status \in {"success", "failed"}
             /\ f.startTime = e.startTime
             /\ f.manual = e.manual
    \/ task_files[t] # NoFile /\ delete_scheduled_task(t)

\* C20: an execution file with status running changes only by being
\* rewritten with a terminal status by its own call, an execution file with
\* a terminal status never changes, and execution files disappear only when
\* their task is deleted.
C20_WrittenOnce ==
    [][\A t \in TaskIds : \A e \in execution_files[t] : C20_RecordStep(t, e)]_vars

\* the fields of the execution record e agree with its status
Consistent(e) ==
    /\ e.endTime = Null <=> e.status = "running"
    /\ (Has(e, "result") /\ e.result # NullResult) => e.status = "success"
    /\ (Has(e, "error") /\ e.error # NullStr) => e.status \in {"failed", "skipped"}

\* C21: in every execution file and in every record _execute_task_impl
\* returns, endTime is null exactly if the status is running, a result is
\* there only with status success and an error only with status failed or
\* skipped.
C21_Consistent ==
    /\ \A t \in TaskIds : \A e \in execution_files[t] : Consistent(e)
    /\ IsReturn(returned) => Consistent(returned.execution)

\* a call was skipped and returned its record with an error and an endTime,
\* while the file of the call in flight says running with no endTime
C21_Witness ==
    /\ IsReturn(returned)
    /\ returned.execution.status = "skipped"
    /\ returned.execution.error # NullStr
    /\ returned.execution.endTime # Null
    /\ \E e \in execution_files[returned.execution.taskId] :
          e.status = "running" /\ e.endTime = Null /\ e.result = NullResult

\* the steps of C22: the agent invocation of call c ends, and the
\* lastExecutedAt of task t is set
C22_EndStep(c) ==
    ( /\ AgentEnd(c) \/ AgentTimeout(c) \/ \E d \in Failures : AgentError(c, d)
      /\ IsTask(task_files'[c.task_id]) ) =>
        task_files'[c.task_id].lastExecutedAt = returned'.execution.endTime

C22_SetStep(t) ==
    ( /\ IsTask(task_files[t]) /\ task_files[t].lastExecutedAt = Null
      /\ IsTask(task_files'[t]) /\ task_files'[t].lastExecutedAt # Null ) =>
        \E c \in coroutines \ coroutines' :
            /\ c.task_id = t
            /\ IsReturn(returned')
            /\ returned'.execution.status \in {"success", "failed"}

\* C22: when an execution of a task ends with status success or failed, the
\* stored task's lastExecutedAt is that execution's endTime, and
\* lastExecutedAt leaves null only when an execution of the task ends.
C22_LastExecutedAt ==
    [][ /\ \A c \in coroutines : C22_EndStep(c)
        /\ \A t \in TaskIds : C22_SetStep(t) ]_vars

\* the calls of task t that pass the concurrency check in this step
Starting(t) ==
    {c \in coroutines' \ coroutines : c.task_id = t /\ c.pc = "streaming"}

\* the execution id of the call of _execute_task_impl for task t that runs
\* from its entry in this step
AttemptId(t) ==
    IF Starting(t) # {}
    THEN (CHOOSE c \in Starting(t) : TRUE).execution.id
    ELSE returned'.execution.id

\* the step of C23 for task t
C23_AttemptStep(t) ==
    Enters(t) => \A e \in execution_files[t] : e.id < AttemptId(t)

\* C23: the execution id a call of _execute_task_impl takes is greater than
\* the id of every execution file the task already has, so no call writes
\* over the record of another call, also within one millisecond.
C23_UniqueIds == [][\A t \in TaskIds : C23_AttemptStep(t)]_vars

\* ------------------------------------------ the process ends during a save
\* Path.write_text opens the file for writing, which empties it, and then
\* writes the text: until the text is written the file holds no document a
\* reader can parse
opened_for_writing(files, task_id) == [files EXCEPT ![task_id] = CorruptFile]

\* The process ends while save_task or _save_task is writing the file of the
\* stored task t (during an update, enable or disable request, or at the end
\* of an execution), and a new process constructs its scheduler.
killed_in_save_task(t) ==
    /\ started
    /\ IsTask(task_files[t])
    /\ nops < MaxOps
    /\ nops' = nops + 1
    /\ task_files' = opened_for_writing(task_files, t)
    /\ started' = FALSE
    /\ running_tasks' = new_running_tasks
    /\ jobs' = new_jobs
    /\ coroutines' = {}
    /\ returned' = Response("killed", t, 500)
    /\ UNCHANGED <<clock, execution_files>>

StorageNext ==
    \/ Next
    \/ \E t \in TaskIds : killed_in_save_task(t)

StorageSpec == Init /\ [][StorageNext]_vars

\* C24: no step leaves a task file half written: a file that is absent or
\* holds a complete document holds, after every step, a complete document
\* or is absent, also when the process ends during a save.
C24_AtomicSave ==
    [][\A t \in TaskIds : task_files[t] # CorruptFile => task_files'[t] # CorruptFile]_vars

\* ------------------------------------------------ the text of a task file
\* In the actions above a task file is the document json.loads makes of it.
\* Here the file holds the bytes save_task writes,
\*   file_path.write_text(json.dumps(task, ensure_ascii=False, indent=2),
\*                        encoding="utf-8")
\* and load_task reads them with
\*   json.loads(file_path.read_text(encoding="utf-8")).
\* A text is a sequence of characters; the literals null, true and false are
\* one element each.
QUOTE     == "QUOTE"
BACKSLASH == "BACKSLASH"
LF        == "LF"
SP        == "SP"
E_ACUTE   == "E_ACUTE"

\* Python values of a task document: None, a bool or a str.  A dict is the
\* sequence of its items <<key, value>> in insertion order.
PyNone    == [type |-> "NoneType"]
PyBool(b) == [type |-> "bool", value |-> b]
PyStr(s)  == [type |-> "str", value |-> s]

K_id             == <<"i", "d">>
K_name           == <<"n", "a", "m", "e">>
K_enabled        == <<"e", "n", "a", "b", "l", "e", "d">>
K_lastExecutedAt == <<"l", "a", "s", "t">>

\* str(n) of the number in a task id, and f"task-{n}"
Digit(n) == <<"0", "1", "2", "3", "4", "5", "6", "7", "8", "9">>[n + 1]
IdStr(n) == <<"t", Digit(n)>>

\* task[key]
dict_get(d, key) == d[CHOOSE i \in 1..Len(d) : d[i][1] = key][2]

\* json.dumps: the text of one character inside a string, with the
\* backslash left as it is
ESCAPE_DCT_plain_backslash(c) ==
    CASE c = QUOTE -> <<BACKSLASH, QUOTE>>
      [] c = LF    -> <<BACKSLASH, "n">>
      [] OTHER     -> <<c>>

\* json.dumps: the text of one character inside a string (ensure_ascii is
\* False: a character outside ASCII stays as it is)
ESCAPE_DCT(c) ==
    CASE c = QUOTE     -> <<BACKSLASH, QUOTE>>
      [] c = BACKSLASH -> <<BACKSLASH, BACKSLASH>>
      [] c = LF        -> <<BACKSLASH, "n">>
      [] OTHER         -> <<c>>

RECURSIVE replace(_)
replace(s) == IF s = <<>> THEN <<>> ELSE ESCAPE_DCT(Head(s)) \o replace(Tail(s))

py_encode_basestring(s) == <<QUOTE>> \o replace(s) \o <<QUOTE>>

\* json.dumps of a value
dumps_value(v) ==
    CASE v.type = "NoneType" -> <<"null">>
      [] v.type = "bool"     -> IF v.value THEN <<"true">> ELSE <<"false">>
      [] v.type = "str"      -> py_encode_basestring(v.value)

\* the items of a dict from item i on, with indent=2: every item on a line
\* of its own, ", " between items and ": " between key and value
RECURSIVE dumps_items(_, _)
dumps_items(d, i) ==
    IF i > Len(d) THEN <<>>
    ELSE <<LF, SP, SP>> \o py_encode_basestring(d[i][1]) \o <<":", SP>> \o
         dumps_value(d[i][2]) \o (IF i < Len(d) THEN <<",">> ELSE <<>>) \o
         dumps_items(d, i + 1)

\* json.dumps(task, ensure_ascii=False, indent=2)
dumps(d) == <<"{">> \o dumps_items(d, 1) \o <<LF, "}">>

\* str.encode("utf-8") and bytes.decode("utf-8"): a character outside ASCII
\* is two bytes
RECURSIVE utf8_encode(_)
utf8_encode(s) ==
    IF s = <<>> THEN <<>>
    ELSE (IF Head(s) = E_ACUTE THEN <<"0xC3", "0xA9">> ELSE <<Head(s)>>) \o
         utf8_encode(Tail(s))

RECURSIVE utf8_decode(_)
utf8_decode(b) ==
    IF b = <<>> THEN <<>>
    ELSE IF Head(b) = "0xC3" /\ Len(b) >= 2 /\ b[2] = "0xA9"
         THEN <<E_ACUTE>> \o utf8_decode(Tail(Tail(b)))
         ELSE <<Head(b)>> \o utf8_decode(Tail(b))

\* json.loads: the scanner.  A result is [value, end], with end the position
\* after the value; ParseError stands for json.JSONDecodeError
ParseError == [end |-> 0]
WHITESPACE == {SP, LF}

RECURSIVE skip(_, _)
skip(s, i) == IF i <= Len(s) /\ s[i] \in WHITESPACE THEN skip(s, i + 1) ELSE i

\* the character a backslash and c stand for
BACKSLASH_DCT(c) ==
    CASE c = QUOTE     -> QUOTE
      [] c = BACKSLASH -> BACKSLASH
      [] c = "n"       -> LF

\* py_scanstring(s, i), strict: the string whose opening quote is before i
RECURSIVE py_scanstring(_, _, _)
py_scanstring(s, i, chunks) ==
    IF i > Len(s) THEN ParseError
    ELSE IF s[i] = QUOTE THEN [value |-> chunks, end |-> i + 1]
    ELSE IF s[i] = LF THEN ParseError
    ELSE IF s[i] = BACKSLASH
         THEN IF i + 1 > Len(s) \/ s[i + 1] \notin {QUOTE, BACKSLASH, "n"}
              THEN ParseError
              ELSE py_scanstring(s, i + 2, Append(chunks, BACKSLASH_DCT(s[i + 1])))
    ELSE py_scanstring(s, i + 1, Append(chunks, s[i]))

\* scan_once(s, i): the value that begins at i
scan_once(s, i) ==
    IF i > Len(s) THEN ParseError
    ELSE IF s[i] = QUOTE
         THEN LET str == py_scanstring(s, i + 1, <<>>)
              IN IF str.end = 0 THEN ParseError
                 ELSE [value |-> PyStr(str.value), end |-> str.end]
    ELSE IF s[i] = "null"  THEN [value |-> PyNone, end |-> i + 1]
    ELSE IF s[i] = "true"  THEN [value |-> PyBool(TRUE), end |-> i + 1]
    ELSE IF s[i] = "false" THEN [value |-> PyBool(FALSE), end |-> i + 1]
    ELSE ParseError

\* JSONObject: the items of the object from position i on, after `pairs`
RECURSIVE JSONObject(_, _, _)
JSONObject(s, i, pairs) ==
    LET k == skip(s, i)
    IN IF k > Len(s) \/ s[k] # QUOTE THEN ParseError
       ELSE LET key == py_scanstring(s, k + 1, <<>>)
            IN IF key.end = 0 THEN ParseError
               ELSE LET c == skip(s, key.end)
                    IN IF c > Len(s) \/ s[c] # ":" THEN ParseError
                       ELSE LET v == scan_once(s, skip(s, c + 1))
                            IN IF v.end = 0 THEN ParseError
                               ELSE LET e     == skip(s, v.end)
                                        items == Append(pairs, <<key.value, v.value>>)
                                    IN IF e > Len(s) THEN ParseError
                                       ELSE IF s[e] = "}"
                                            THEN [value |-> items, end |-> e + 1]
                                       ELSE IF s[e] = ","
                                            THEN JSONObject(s, e + 1, items)
                                       ELSE ParseError

\* json.loads(text) of the text of a dict
loads(s) ==
    LET i == skip(s, 1)
    IN IF i > Len(s) \/ s[i] # "{" THEN ParseError
       ELSE LET obj == JSONObject(s, i + 1, <<>>)
            IN IF obj.end = 0 \/ skip(s, obj.end) # Len(s) + 1 THEN ParseError
               ELSE obj

\* get_task_path(task_id): the file of the task with id "task-<n>" is n
get_task_path(task_id) == CHOOSE n \in TaskIds : IdStr(n) = task_id

\* save_task(task) as server.py and _save_task as scheduler.py write it
write_task(files, task) ==
    [files EXCEPT ![get_task_path(dict_get(task, K_id).value)] =
        [file |-> "bytes", bytes |-> utf8_encode(dumps(task))]]

\* load_task(task_id): the dict, or the error raised
load_task(files, n) ==
    IF files[n] = NoFile THEN [status |-> 404]
    ELSE LET doc == loads(utf8_decode(files[n].bytes))
         IN IF doc.end = 0 THEN [status |-> 500]
            ELSE [status |-> 200, task |-> doc.value]

\* the strings and the task documents saved
Strings ==
    { <<>>, <<"a">>, <<QUOTE>>, <<BACKSLASH, "n">>, <<LF>>, <<E_ACUTE>>,
      <<"a", BACKSLASH>> }

TaskDocument(n, name, b, last) ==
    << <<K_id, PyStr(IdStr(n))>>, <<K_name, PyStr(name)>>,
       <<K_enabled, PyBool(b)>>, <<K_lastExecutedAt, last>> >>

TaskDocuments ==
    { TaskDocument(n, name, TRUE, PyNone) : n \in TaskIds, name \in Strings } \cup
    { TaskDocument(n, <<"a">>, FALSE, PyStr(<<"a">>)) : n \in TaskIds }

PersistInit ==
    /\ clock = 0
    /\ started = FALSE
    /\ task_files = [t \in TaskIds |-> NoFile]
    /\ execution_files = [t \in TaskIds |-> {}]
    /\ running_tasks = [t \in TaskIds |-> FALSE]
    /\ jobs = [t \in TaskIds |-> NoJob]
    /\ coroutines = {}
    /\ nops = 0
    /\ returned = [op |-> "init"]

\* save_task(task)
call_save_task(task) ==
    /\ nops < MaxOps
    /\ nops' = nops + 1
    /\ task_files' = write_task(task_files, task)
    /\ returned' = [op |-> "save_task", task |-> task]
    /\ UNCHANGED <<clock, started, execution_files, running_tasks, jobs, coroutines>>

\* load_task(f"task-{n}")
call_load_task(n) ==
    /\ returned' = [op |-> "load_task", task_id |-> n] @@ load_task(task_files, n)
    /\ UNCHANGED <<clock, started, task_files, execution_files, running_tasks, jobs,
                   coroutines, nops>>

\* save_task(task) of the task the last load_task returned
call_save_loaded ==
    /\ returned.op = "load_task"
    /\ returned.status = 200
    /\ task_files' = write_task(task_files, returned.task)
    /\ returned' = [op |-> "save_loaded", task |-> returned.task]
    /\ UNCHANGED <<clock, started, execution_files, running_tasks, jobs, coroutines,
                   nops>>

PersistNext ==
    \/ \E task \in TaskDocuments : call_save_task(task)
    \/ \E n \in TaskIds : call_load_task(n)
    \/ call_save_loaded

PersistSpec == PersistInit /\ [][PersistNext]_vars

\* the step of C25 in which a document is saved
C25_SaveStep ==
    returned'.op = "save_task" =>
        load_task(task_files', get_task_path(dict_get(returned'.task, K_id).value))
            = [status |-> 200, task |-> returned'.task]

\* the step of C25 in which the document loaded is saved again
C25_SaveLoadedStep ==
    returned'.op = "save_loaded" => task_files' = task_files

\* C25: a task document that is saved and then loaded by its id comes back
\* with the same fields and the same values, and saving the loaded document
\* again leaves the store as it is.
C25_RoundTrip == [][C25_SaveStep /\ C25_SaveLoadedStep]_vars

\* a document whose name holds a backslash was saved, loaded and saved again
C25_Witness ==
    /\ returned.op = "save_loaded"
    /\ dict_get(returned.task, K_name) = PyStr(<<BACKSLASH, "n">>)

\* ------------------------------------------------- the execution history
\* Execution files left in tasks_dir/0/executions by earlier executions: per
\* execution id no file, an unreadable file, or a record with a start time.
DefaultLimit == 20

StoredExecution(id, started_at) ==
    [id |-> id, taskId |-> 0, startTime |-> started_at, endTime |-> started_at,
     status |-> "failed", error |-> TimeoutError]

UnreadableExecution(id) == [id |-> id, file |-> "corrupt"]

ExecutionFiles(id) ==
    {UnreadableExecution(id)} \cup { StoredExecution(id, s) : s \in TaskIds }

ExecutionDirs ==
    UNION { { { g[id] : id \in ids } :
              g \in { h \in [ids -> UNION { ExecutionFiles(id) : id \in ids }] :
                          \A id \in ids : h[id] \in ExecutionFiles(id) } } :
            ids \in SUBSET TaskIds }

\* executions_dir.glob("*.json"): the files in the order the directory
\* gives them
glob(dir) ==
    { l \in [1..Cardinality(dir) -> dir] :
        \A i, j \in 1..Cardinality(dir) : l[i] = l[j] => i = j }

\* the loop over the files: the records json.loads accepts, in that order
RECURSIVE loaded(_)
loaded(listing) ==
    IF listing = <<>> THEN <<>>
    ELSE (IF Has(Head(listing), "startTime") THEN <<Head(listing)>> ELSE <<>>) \o
         loaded(Tail(listing))

\* executions.sort(key=lambda x: x.get("startTime", ""), reverse=True): the
\* sort is stable, records with the same start time keep their order
insert(sorted, e) ==
    LET n == Cardinality({i \in 1..Len(sorted) : sorted[i].startTime >= e.startTime})
    IN SubSeq(sorted, 1, n) \o <<e>> \o SubSeq(sorted, n + 1, Len(sorted))

RECURSIVE sort(_, _)
sort(sorted, rest) ==
    IF rest = <<>> THEN sorted ELSE sort(insert(sorted, Head(rest)), Tail(rest))

\* an index of a slice of a list of length n, as Python adjusts it
adjust(index, n) ==
    LET i == IF index < 0 THEN index + n ELSE index
    IN IF i < 0 THEN 0 ELSE IF i > n THEN n ELSE i

\* list[start:stop]
slice(list, first, last) ==
    SubSeq(list, adjust(first, Len(list)) + 1, adjust(last, Len(list)))

\* list_executions(task_id, limit, offset) when the directory gives its
\* files in the order `listing`
list_executions(listing, limit, offset) ==
    LET executions == sort(<<>>, loaded(listing))
    IN [page |-> slice(executions, offset, offset + limit), total |-> Len(executions)]

\* the task file of task 0: missing, unreadable, or a stored task
HistoryTaskFiles == {NoFile, CorruptFile, StoredTaskAt(0, EveryMinute, TRUE)}

HistoryInit ==
    /\ clock = 0
    /\ started = FALSE
    /\ \E doc \in HistoryTaskFiles :
          task_files = [t \in TaskIds |-> IF t = 0 THEN doc ELSE NoFile]
    /\ \E dir \in ExecutionDirs :
          execution_files = [t \in TaskIds |-> IF t = 0 THEN dir ELSE {}]
    /\ running_tasks = [t \in TaskIds |-> FALSE]
    /\ jobs = [t \in TaskIds |-> NoJob]
    /\ coroutines = {}
    /\ nops = 0
    /\ returned = [op |-> "init"]

Limits  == {-1, 0, 1, 2, DefaultLimit}
Offsets == -1..(MaxClock + 1)

\* GET /api/scheduled-tasks/{task_id}/executions, one request per
\* directory: load_task answers 404 when the task file is missing and fails
\* (500) when it is unreadable; otherwise the page and the total of
\* list_executions are returned.  Nothing is changed.
call_list_executions(task_id, limit, offset) ==
    /\ returned.op = "init"
    /\ LET request == [op |-> "list_executions", task_id |-> task_id,
                       limit |-> limit, offset |-> offset]
       IN IF task_files[task_id] = NoFile
          THEN returned' = request @@ [status |-> 404]
          ELSE IF task_files[task_id] = CorruptFile
          THEN returned' = request @@ [status |-> 500]
          ELSE \E listing \in glob(execution_files[task_id]) :
                  returned' = request @@ [status |-> 200] @@
                              list_executions(listing, limit, offset)
    /\ UNCHANGED <<clock, started, task_files, execution_files, running_tasks, jobs,
                   coroutines, nops>>

HistoryNext ==
    \E t \in TaskIds, limit \in Limits, offset \in Offsets :
        call_list_executions(t, limit, offset)

HistorySpec == HistoryInit /\ [][HistoryNext]_vars

\* the persisted executions of task t, and their arrangements by start time
\* descending
PersistedExecutions(t) == {e \in execution_files[t] : Has(e, "startTime")}

Descending(s) == \A i, j \in 1..Len(s) : i < j => s[i].startTime >= s[j].startTime

Arrangements(t) == {s \in glob(PersistedExecutions(t)) : Descending(s)}

\* the elements of s at the positions offset .. offset+limit-1, counted
\* from 0
Window(s, offset, limit) ==
    LET lo == IF offset < 0 THEN 1 ELSE offset + 1
        hi == IF offset + limit > Len(s) THEN Len(s) ELSE offset + limit
    IN IF lo > hi THEN <<>> ELSE SubSeq(s, lo, hi)

C26_ListStep ==
    (returned'.op = "list_executions" /\ returned'.status = 200) =>
        /\ returned'.total = Cardinality(PersistedExecutions(returned'.task_id))
        /\ \E s \in Arrangements(returned'.task_id) :
              returned'.page = Window(s, returned'.offset, returned'.limit)

\* C26: list_executions returns as page the elements at the positions
\* offset .. offset+limit-1 of the task's persisted executions sorted by
\* startTime descending and as total the number of all of them; for a task
\* without executions the page is empty and the total 0.
C26_Page == [][C26_ListStep]_vars

\* ------------------------------------------------ the next fire time alone
\* Valid expressions that restrict the minute, the hour and the day of the
\* week, and reference instants around the turn of the hour, on the first
\* day (a Monday).
EveryOtherMinute == <<"*/2", "*", "*", "*", "*">>
Midnight         == <<"0", "0", "*", "*", "*">>
WeekdayZero      == <<"0", "*", "*", "*", "0">>

StandardCronExprs ==
    ValidCronExprs \cup {EveryOtherMinute, Midnight, WeekdayZero}

ReferenceMinutes ==
    { h * 60 + d : h \in {0, 1, 22}, d \in (1..MaxClock) \cup {0, 59} }

CronInit ==
    /\ clock = 0
    /\ started = FALSE
    /\ task_files = [t \in TaskIds |-> NoFile]
    /\ execution_files = [t \in TaskIds |-> {}]
    /\ running_tasks = [t \in TaskIds |-> FALSE]
    /\ jobs = [t \in TaskIds |-> NoJob]
    /\ coroutines = {}
    /\ nops = 0
    /\ returned = [op |-> "init"]

\* validate_cron_expression(cron) and the next fire time of its trigger
\* from the instant (minute, whole), as add_job computes it from now
call_next_fire_time(cron, minute, whole) ==
    /\ returned.op = "init"
    /\ returned' = [op |-> "next_fire_time", cron |-> cron, minute |-> minute,
                    whole |-> whole,
                    valid |-> validate_cron_expression(cron),
                    next |-> next_fire_time(cron, minute, whole)]
    /\ UNCHANGED <<clock, started, task_files, execution_files, running_tasks, jobs,
                   coroutines, nops>>

CronNext ==
    \E cron \in StandardCronExprs, minute \in ReferenceMinutes, whole \in BOOLEAN :
        call_next_fire_time(cron, minute, whole)

CronSpec == CronInit /\ [][CronNext]_vars

\* The fields of a cron expression as crontab defines them: minute, hour,
\* day of the month, month, and day of the week counted from Sunday = 0.
Satisfies(parts, m) ==
    /\ FieldMatches(parts[1], m % 60, 0, 59)
    /\ FieldMatches(parts[2], (m \div 60) % 24, 0, 23)
    /\ FieldMatches(parts[3], 1 + (m \div MinutesPerDay), 1, 31)
    /\ FieldMatches(parts[4], 1, 1, 12)
    /\ FieldMatches(parts[5], (weekday(m) + 1) % 7, 0, 6)

\* the whole minute m is later than the reference instant (minute, whole)
Later(m, minute, whole) == IF whole THEN m > minute ELSE m >= minute + 1

C27_Result(r) ==
    /\ r.valid
    /\ r.next # Null
    /\ Later(r.next, r.minute, r.whole)
    /\ Satisfies(r.cron, r.next)
    /\ \A m \in 0..(r.next - 1) :
          Later(m, r.minute, r.whole) => ~Satisfies(r.cron, m)

\* C27: for a valid 5-field cron expression validate returns true, and the
\* next fire time from a reference instant is strictly later than the
\* instant and satisfies all five fields, and no instant between the two
\* satisfies them.
C27_NextFireTime == returned.op = "next_fire_time" => C27_Result(returned)

\* ------------------------------------------- remove_task called directly
\* Two enabled tasks stored by an earlier run; besides the schedule and
\* direct calls of execute_task, remove_task is called for any task id.
RemoveInit ==
    /\ clock = 0
    /\ started = FALSE
    /\ task_files = [t \in TaskIds |->
                       IF t = 0 THEN StoredTaskAt(0, EveryMinute, TRUE)
                       ELSE IF t = 1 THEN StoredTaskAt(1, Hourly, TRUE) ELSE NoFile]
    /\ execution_files = [t \in TaskIds |-> {}]
    /\ running_tasks = new_running_tasks
    /\ jobs = new_jobs
    /\ coroutines = {}
    /\ nops = 0
    /\ returned = Response("init", Null, 200)

\* await scheduler.remove_task(task_id); `removed`: remove_job found the job
\* (otherwise it raises JobLookupError, which remove_task logs)
call_remove_task(task_id) ==
    /\ nops < MaxOps
    /\ nops' = nops + 1
    /\ jobs' = remove_task(jobs, task_id)
    /\ returned' = [op |-> "remove_task", call |-> nops + 1, task_id |-> task_id,
                    removed |-> jobs[task_id] # NoJob, raised |-> FALSE]
    /\ UNCHANGED <<clock, started, task_files, execution_files, running_tasks,
                   coroutines>>

RemoveNext ==
    \/ ExecNext
    \/ \E t \in TaskIds : call_remove_task(t)

RemoveSpec == RemoveInit /\ [][RemoveNext]_vars

\* the step of C28: a call of remove_task
C28_RemoveStep ==
    returned'.op = "remove_task" /\ returned' # returned =>
        /\ ~returned'.raised
        /\ jobs'[returned'.task_id] = NoJob
        /\ \A t \in TaskIds \ {returned'.task_id} : jobs'[t] = jobs[t]
        /\ task_files' = task_files
        /\ execution_files' = execution_files
        /\ running_tasks' = running_tasks

\* C28: remove_task deletes the registry entry of the task if there is one
\* and otherwise changes nothing and raises nothing; either way the task
\* files, the running flags and the entries of all other tasks stay as they
\* are.
C28_Remove == [][C28_RemoveStep]_vars

\* the entry of a task whose execution is in flight was removed while
\* another task is registered
C28_Witness ==
    /\ returned.op = "remove_task"
    /\ returned.removed
    /\ running_tasks[returned.task_id]
    /\ \E t \in TaskIds \ {returned.task_id} : jobs[t] # NoJob

\* ----------------------------------------------- the job store as a list
\* In the actions above the registry is a function of the task id.  Here it
\* is what the scheduler's job store keeps: a list of jobs, each with its
\* id, ordered by next run time and id.  scheduler.add_job looks the id up
\* and, as replace_existing is True, puts the new job in the place of a job
\* with the same id.
Before(a, b) ==
    \/ a.next_run_time < b.next_run_time
    \/ a.next_run_time = b.next_run_time /\ a.id < b.id

store_insert(store, job) ==
    LET n == Cardinality({i \in 1..Len(store) : Before(store[i], job)})
    IN SubSeq(store, 1, n) \o <<job>> \o SubSeq(store, n + 1, Len(store))

lookup_job(store, job_id) == \E i \in 1..Len(store) : store[i].id = job_id

store_remove_job(store, job_id) == SelectSeq(store, LAMBDA j : j.id # job_id)

\* the job is stored without a look at the ids the store holds
real_add_job_unchecked(store, job, replace_existing) ==
    [raised |-> FALSE, store |-> store_insert(store, job)]

\* scheduler.add_job(..., id=task_id, replace_existing=...) on a running
\* scheduler: ConflictingIdError unless replace_existing
real_add_job(store, job, replace_existing) ==
    IF ~lookup_job(store, job.id)
    THEN [raised |-> FALSE, store |-> store_insert(store, job)]
    ELSE IF replace_existing
    THEN [raised |-> FALSE,
          store |-> store_insert(store_remove_job(store, job.id), job)]
    ELSE [raised |-> TRUE, store |-> store]

\* scheduler.get_job(task_id).next_run_time
job_next_run_time(store, job_id) ==
    IF lookup_job(store, job_id)
    THEN store[CHOOSE i \in 1..Len(store) : store[i].id = job_id].next_run_time
    ELSE Null

\* add_task, remove_task and update_task over the list
add_task_to_store(store, files, task) ==
    IF ~ (Len(task.cronExpression) = 5 /\ CronTrigger(task.cronExpression))
    THEN [raised |-> TRUE, store |-> store, files |-> files]
    ELSE LET job   == [id |-> task.id, trigger |-> task.cronExpression,
                       next_run_time |-> get_next_fire_time(task.cronExpression, Now)]
             added == real_add_job(store, job, TRUE)
             nrt   == job_next_run_time(added.store, task.id)
         IN [raised |-> added.raised, store |-> added.store,
             files |-> IF ~added.raised /\ nrt # Null
                       THEN save_task(files, [task EXCEPT !.nextExecutionAt = nrt])
                       ELSE files]

remove_task_from_store(store, task_id) == store_remove_job(store, task_id)

update_task_in_store(store, files, task) ==
    LET removed == remove_task_from_store(store, task.id)
    IN IF task.enabled THEN add_task_to_store(removed, files, task)
       ELSE [raised |-> FALSE, store |-> removed, files |-> files]

\* start(): the loop over the task files
RECURSIVE load_tasks(_, _, _)
load_tasks(store, files, ids) ==
    IF ids = {} THEN [store |-> store, files |-> files]
    ELSE LET t   == CHOOSE x \in ids : \A y \in ids : x <= y
             doc == files[t]
             res == IF IsTask(doc) /\ doc.enabled
                    THEN add_task_to_store(store, files, doc)
                    ELSE [raised |-> FALSE, store |-> store, files |-> files]
         IN load_tasks(res.store, res.files, ids \ {t})

JobStoreInit ==
    /\ clock = 0
    /\ started = FALSE
    /\ task_files = [t \in TaskIds |->
                       IF t = 0 THEN StoredTaskAt(0, EveryMinute, TRUE)
                       ELSE IF t = 1 THEN StoredTaskAt(1, Hourly, TRUE)
                       ELSE IF t = 2 THEN StoredTaskAt(2, EveryMinute, FALSE)
                       ELSE NoFile]
    /\ execution_files = [t \in TaskIds |-> {}]
    /\ running_tasks = [t \in TaskIds |-> FALSE]
    /\ jobs = <<>>
    /\ coroutines = {}
    /\ nops = 0
    /\ returned = [op |-> "init"]

store_start ==
    /\ ~started
    /\ started' = TRUE
    /\ LET loaded_tasks == load_tasks(jobs, task_files, TaskIds)
       IN /\ jobs' = loaded_tasks.store
          /\ task_files' = loaded_tasks.files
    /\ returned' = [op |-> "start"]
    /\ UNCHANGED <<clock, execution_files, running_tasks, coroutines, nops>>

store_add_task(task_id, cron) ==
    /\ started
    /\ IsTask(task_files[task_id])
    /\ nops < MaxOps
    /\ nops' = nops + 1
    /\ LET task  == [task_files[task_id] EXCEPT !.cronExpression = cron]
           added == add_task_to_store(jobs, task_files, task)
       IN /\ jobs' = added.store
          /\ task_files' = added.files
          /\ returned' = [op |-> "add_task", task_id |-> task_id,
                          replaced |-> lookup_job(jobs, task_id) /\ ~added.raised,
                          raised |-> added.raised]
    /\ UNCHANGED <<clock, started, execution_files, running_tasks, coroutines>>

store_update_task(task_id, cron, enabled) ==
    /\ started
    /\ IsTask(task_files[task_id])
    /\ nops < MaxOps
    /\ nops' = nops + 1
    /\ LET task    == [task_files[task_id] EXCEPT !.cronExpression = cron,
                                                  !.enabled = enabled]
           updated == update_task_in_store(jobs, task_files, task)
       IN /\ jobs' = updated.store
          /\ task_files' = updated.files
          /\ returned' = [op |-> "update_task", task_id |-> task_id,
                          raised |-> updated.raised]
    /\ UNCHANGED <<clock, started, execution_files, running_tasks, coroutines>>

store_remove_task(task_id) ==
    /\ nops < MaxOps
    /\ nops' = nops + 1
    /\ jobs' = remove_task_from_store(jobs, task_id)
    /\ returned' = [op |-> "remove_task", task_id |-> task_id]
    /\ UNCHANGED <<clock, started, task_files, execution_files, running_tasks,
                   coroutines>>

Due(job) == job.next_run_time # Null /\ job.next_run_time <= clock

\* time passes while no job is due
store_tick ==
    /\ clock < MaxClock
    /\ started => \A i \in 1..Len(jobs) : ~Due(jobs[i])
    /\ clock' = clock + 1
    /\ UNCHANGED <<started, task_files, execution_files, running_tasks, jobs,
                   coroutines, nops, returned>>

\* the jobs of `store` from position i on, each due job rescheduled
RECURSIVE rescheduled(_, _, _)
rescheduled(store, acc, i) ==
    IF i > Len(store) THEN acc
    ELSE rescheduled(store,
             store_insert(acc,
                 IF Due(store[i])
                 THEN [store[i] EXCEPT
                          !.next_run_time = get_next_fire_time(store[i].trigger, Now)]
                 ELSE store[i]),
             i + 1)

\* the scheduler wakes up: every due job of the list is handed to the event
\* loop for its run time and gets its next run time
process_jobs ==
    /\ started
    /\ \E i \in 1..Len(jobs) : Due(jobs[i])
    /\ coroutines' = coroutines \cup
           { [task_id |-> jobs[i].id, run_time |-> jobs[i].next_run_time, job |-> i] :
             i \in {k \in 1..Len(jobs) : Due(jobs[k])} }
    /\ jobs' = rescheduled(jobs, <<>>, 1)
    /\ returned' = [op |-> "process_jobs"]
    /\ UNCHANGED <<clock, started, task_files, execution_files, running_tasks, nops>>

JobStoreNext ==
    \/ store_start
    \/ \E t \in TaskIds, cron \in CronExprs : store_add_task(t, cron)
    \/ \E t \in TaskIds, cron \in ValidCronExprs, enabled \in BOOLEAN :
          store_update_task(t, cron, enabled)
    \/ \E t \in TaskIds : store_remove_task(t)
    \/ store_tick
    \/ process_jobs

JobStoreSpec == JobStoreInit /\ [][JobStoreNext]_vars

\* C29: the job store holds at most one job per task id, whatever add,
\* update, remove and start calls were made, and no task is handed to the
\* event loop twice for one run time.
C29_OneEntry ==
    /\ \A i, j \in 1..Len(jobs) : jobs[i].id = jobs[j].id => i = j
    /\ \A c, d \in coroutines :
          c.task_id = d.task_id /\ c.run_time = d.run_time => c = d

\* add_task replaced the job of a task after a fire was delivered, and the
\* store holds jobs of two tasks
C29_Witness ==
    /\ returned.op = "add_task"
    /\ returned.replaced
    /\ Len(jobs) >= 2
    /\ coroutines # {}

\* ------------------------------------------------------ the guard per task
\* the step of C30 for task t: a call for t starts while t is idle and an
\* execution of another task is in flight
C30_EntryStep(t) ==
    ((\E a \in TaskIds \ {t} : InFlight(a)) /\ ~running_tasks[t] /\ Enters(t)) =>
        /\ IF IsTask(task_files[t])
           THEN /\ Starting(t) # {}
                /\ running_tasks'[t]
                /\ \E e \in execution_files'[t] : e.status = "running"
           ELSE /\ returned' # returned
                /\ returned'.execution.taskId = t
                /\ returned'.execution.status = "failed"
        /\ \A a \in TaskIds \ {t} :
              /\ running_tasks'[a] = running_tasks[a]
              /\ InFlight(a) => \E c \in coroutines' : c.task_id = a /\ c.pc = "streaming"

\* C30: an execution of task A in flight never makes a call for another
\* task B skip: the running flag is kept per task id, the call for B starts
\* its execution in the same step, and the execution of A goes on.
C30_PerTaskGuard == [][\A t \in TaskIds : C30_EntryStep(t)]_vars

\* executions of two tasks are running at the same time
C30_Witness ==
    \E c, d \in coroutines :
        /\ c.task_id # d.task_id
        /\ c.pc = "streaming" /\ d.pc = "streaming"
        /\ running_tasks[c.task_id] /\ running_tasks[d.task_id]
        /\ \E e \in execution_files[c.task_id] : e.status = "running"
        /\ \E e \in execution_files[d.task_id] : e.status = "running"

\* ------------------------------- administrative calls on the event loop
\* add_task, remove_task and update_task are coroutines run by the one event
\* loop of the server: a call that has started runs until it awaits
\* something that suspends.  `await self.remove_task(task_id)` and
\* `await self.add_task(task)` await coroutines that contain no await of
\* their own, so they run to their end without returning to the loop.
suspends_always(callee) == TRUE

suspends(callee) == FALSE

\* the answer of an administrative call; `waiting` are the calls on the same
\* task id that were created before this one ran and have not started
Answer(c, raised) ==
    [op |-> c.kind, call |-> c.call, task_id |-> c.task.id, raised |-> raised,
     waiting |-> { d.call : d \in { x \in coroutines \ {c} : x.task.id = c.task.id } }]

\* a request creates the coroutine of an administrative call on a stored
\* task, with the cron expression and the enabled flag of the request
create_call(kind, task_id, cron, enabled) ==
    /\ started
    /\ IsTask(task_files[task_id])
    /\ nops < MaxOps
    /\ nops' = nops + 1
    /\ coroutines' = coroutines \cup
           { [call |-> nops + 1, kind |-> kind, pc |-> "created",
              task |-> [task_files[task_id] EXCEPT !.cronExpression = cron,
                                                   !.enabled = enabled]] }
    /\ UNCHANGED <<clock, started, task_files, execution_files, running_tasks, jobs,
                   returned>>

\* the event loop runs the call c up to its next suspension or to its end
resume(c) ==
    /\ IF c.kind = "add_task"
       THEN LET added == add_task(jobs, task_files, c.task)
            IN /\ jobs' = added.jobs
               /\ task_files' = added.files
               /\ coroutines' = coroutines \ {c}
               /\ returned' = Answer(c, added.raised)
       ELSE IF c.kind = "remove_task"
       THEN /\ jobs' = remove_task(jobs, c.task.id)
            /\ coroutines' = coroutines \ {c}
            /\ returned' = Answer(c, FALSE)
            /\ UNCHANGED task_files
       ELSE IF c.pc = "created" /\ suspends("remove_task")
       THEN /\ jobs' = remove_task(jobs, c.task.id)
            /\ coroutines' = (coroutines \ {c}) \cup {[c EXCEPT !.pc = "removed"]}
            /\ UNCHANGED <<task_files, returned>>
       ELSE LET updated == IF c.pc = "created"
                           THEN update_task(jobs, task_files, c.task)
                           ELSE IF c.task.enabled
                           THEN add_task(jobs, task_files, c.task)
                           ELSE update_task_untouched(jobs, task_files, c.task)
            IN /\ jobs' = updated.jobs
               /\ task_files' = updated.files
               /\ coroutines' = coroutines \ {c}
               /\ returned' = Answer(c, updated.raised)
    /\ UNCHANGED <<clock, started, execution_files, running_tasks, nops>>

\* the calls of one task id: add_task and update_task with either valid
\* expression, update_task also for a disabled task, and remove_task
AdminNext ==
    \/ start
    \/ \E t \in TaskIds, cron \in ValidCronExprs : create_call("add_task", t, cron, TRUE)
    \/ \E t \in TaskIds : create_call("remove_task", t, task_files[t].cronExpression, TRUE)
    \/ \E t \in TaskIds, cron \in ValidCronExprs, e \in BOOLEAN :
          create_call("update_task", t, cron, e)
    \/ \E c \in coroutines : resume(c)

AdminSpec == RemoveInit /\ [][AdminNext]_vars

\* the step of C31: the call c ran, and every other call on the task id of c
\* had either not started or was over
C31_RunStep(c) ==
    c \notin coroutines' =>
        /\ \A d \in coroutines \ {c} : d.task.id = c.task.id => d.pc = "created"
        /\ \A d \in coroutines' : d.call # c.call

\* C31: two administrative calls (add_task, remove_task, update_task) on the
\* same task id never interleave: when one of them runs, it makes all its
\* changes to the job and the file of that id in one piece, and no other
\* call on that id is part-way through its own changes.
C31_NoInterleaving == [][\A c \in coroutines : C31_RunStep(c)]_vars

\* update_task ran to its end for a task while another call on the same id
\* was waiting: the job now has the trigger of the update and the file its
\* next run time
C31_Witness ==
    /\ returned.op = "update_task"
    /\ returned.waiting # {}
    /\ ~returned.raised
    /\ jobs[returned.task_id] # NoJob
    /\ jobs[returned.task_id].trigger = Hourly
    /\ task_files[returned.task_id].cronExpression = Hourly
    /\ task_files[returned.task_id].nextExecutionAt = jobs[returned.task_id].next_run_time
    /\ \E d \in coroutines : d.task.id = returned.task_id /\ d.pc = "created"

\* the step of C32: a create request that stored a task wrote a file that
\* did not exist
C32_CreateStep ==
    (returned'.op = "create" /\ nops' = nops + 1 /\ returned'.status # 400) =>
        /\ task_files[LoopTime] = NoFile
        /\ IsTask(task_files'[LoopTime])

\* no step changes the id of a stored task
C32_IdKept ==
    \A t \in TaskIds :
        (IsTask(task_files[t]) /\ IsTask(task_files'[t])) =>
            task_files'[t].id = task_files[t].id

\* C32: task ids are unique and immutable: a create request never writes
\* over the file of an existing task, also when two requests fall into the
\* same millisecond of the clock, and no step changes the id of a stored
\* task.
C32_UniqueTaskIds == [][C32_CreateStep /\ C32_IdKept]_vars

\* the part of C32 about immutability alone
C32_Immutable == [][C32_IdKept]_vars

\* the fields of a Task document that only administrative operations set
AdministrativeFields ==
    {"enabled", "cronExpression", "nextExecutionAt", "name", "updatedAt"}

\* the step of C33: the call c of _execute_task_impl, which ran the agent,
\* returns
C33_CompleteStep(c) ==
    (c.pc = "streaming" /\ \A d \in coroutines' : d.call # c.call) =>
        IF IsTask(task_files[c.task_id])
        THEN /\ IsTask(task_files'[c.task_id])
             /\ \A f \in AdministrativeFields :
                   task_files'[c.task_id][f] = task_files[c.task_id][f]
        ELSE task_files'[c.task_id] = task_files[c.task_id]

\* C33: when an execution of a task completes, what it writes to the task
\* file changes lastExecutedAt only: enabled, cronExpression,
\* nextExecutionAt, name and updatedAt keep the values stored last, also
\* those stored by an update, enable or disable that ran while the
\* execution was in flight.
C33_WriteBackFrame == [][\A c \in coroutines : C33_CompleteStep(c)]_vars

\* ------------------------------------ executions when the disk fails
\* _save_execution raises (mkdir or write_text fails, OSError): what the
\* caller of _execute_task_impl gets is the exception
Raised(call, task_id, manual, at) ==
    [op |-> "execute_raised", call |-> call, task_id |-> task_id, manual |-> manual,
     raised |-> "OSError", at |-> at]

\* execute_task(task_id) when writing the running record fails: the write is
\* after the guard is taken and before the try block
execute_task_save_fails(task_id) ==
    /\ started
    /\ nops < MaxOps
    /\ ~is_running(task_id)
    /\ IsTask(task_files[task_id])
    /\ nops' = nops + 1
    /\ running_tasks' = acquire(running_tasks, task_id)
    /\ returned' = Raised(nops + 1, task_id, TRUE, "running")
    /\ UNCHANGED <<clock, started, task_files, execution_files, jobs, coroutines>>

\* the agent stream of c ends or fails and writing the final record fails:
\* the write is the first statement of the finally block, before the guard
\* is released; after a stream that ended, the task file is already written
finish_save_fails(c, ended) ==
    /\ c.pc = "streaming"
    /\ task_files' = IF ended
                     THEN save_task(task_files, [c.task EXCEPT !.lastExecutedAt = Now])
                     ELSE task_files
    /\ coroutines' = coroutines \ {c}
    /\ returned' = Raised(c.call, c.task_id, c.manual, "final")
    /\ UNCHANGED <<clock, started, execution_files, running_tasks, jobs, nops>>

SaveFailNext ==
    \/ ExecNext
    \/ \E t \in TaskIds : execute_task_save_fails(t)
    \/ \E c \in coroutines, ended \in BOOLEAN : finish_save_fails(c, ended)

SaveFailSpec == ExecInit /\ [][SaveFailNext]_vars

\* the step of C34: a call of _execute_task_impl ended with the exception of
\* _save_execution
C34_FailStep ==
    (Has(returned', "raised") /\ returned' # returned) =>
        ~running_tasks'[returned'.task_id]

\* a call is answered "skipped" only while another call of the task runs
C34_SkipStep ==
    ( /\ IsReturn(returned') /\ returned' # returned
      /\ returned'.execution.status = "skipped" ) =>
        InFlight(returned'.execution.taskId)

\* C34: when writing an execution record fails, be it the running record or
\* the final one, the guard of the task is released all the same, so a
\* later call for the task is not skipped as already running.
C34_ReleasedOnSaveFailure == [][C34_FailStep /\ C34_SkipStep]_vars

\* no call of _execute_task_impl for task t is submitted or in flight
Quiet(t) == \A c \in coroutines : c.task_id # t

\* C35: whenever a task has a job and nothing is in progress for it, the
\* nextExecutionAt of its file is the next run time of the job (null when
\* the job has none): also after the scheduler has fired the job and moved
\* its next run time on.
C35_NextExecutionAt ==
    \A t \in TaskIds :
        (jobs[t] # NoJob /\ IsTask(task_files[t]) /\ Quiet(t)) =>
            task_files[t].nextExecutionAt = get_next_run_time(jobs, t)

\* --------------------------------------------- update_task called directly
\* await scheduler.update_task(task): the caller passes the stored task with
\* the cron expression `cron` and the flag `enabled`
call_update_task(task_id, cron, enabled) ==
    /\ started
    /\ IsTask(task_files[task_id])
    /\ LET task    == [task_files[task_id] EXCEPT !.cronExpression = cron,
                                                !.enabled = enabled]
           updated == update_task(jobs, task_files, task)
       IN /\ jobs' = updated.jobs
          /\ task_files' = updated.files
          /\ returned' = [op |-> "update_task", task_id |-> task_id, cron |-> cron,
                          enabled |-> enabled, raised |-> updated.raised]
    /\ UNCHANGED <<clock, started, execution_files, running_tasks, coroutines, nops>>

\* Two enabled tasks with their jobs; update_task is called for either with
\* any expression and either flag, while time passes.
UpdateNext ==
    \/ start
    \/ Tick
    \/ \E t \in TaskIds, cron \in ValidCronExprs \cup {SixFields}, e \in BOOLEAN :
          call_update_task(t, cron, e)

UpdateSpec == RemoveInit /\ [][UpdateNext]_vars

\* what remove_task followed, if the task is enabled, by add_task leaves
RemoveThenAdd(t, cron, enabled) ==
    LET task == [task_files[t] EXCEPT !.cronExpression = cron, !.enabled = enabled]
    IN IF enabled
       THEN add_task(remove_task(jobs, t), task_files, task)
       ELSE [raised |-> FALSE, jobs |-> remove_task(jobs, t), files |-> task_files,
             task |-> task]

\* the step of C36: update_task was called; the job and the files
\* afterwards are those of remove_task and then add_task, and no job with
\* another expression than the task's is left
C36_SameAsRemoveAdd ==
    returned'.op = "update_task" =>
        LET t == returned'.task_id
            expected == RemoveThenAdd(t, returned'.cron, returned'.enabled)
        IN /\ jobs' = expected.jobs
           /\ task_files' = expected.files
           /\ returned'.raised = expected.raised
           /\ jobs'[t] # NoJob =>
                 /\ jobs'[t].trigger = returned'.cron
                 /\ jobs'[t].next_run_time = get_next_fire_time(returned'.cron, Now)
           /\ \A u \in TaskIds \ {t} : jobs'[u] = jobs[u]

\* C36 as stated: update_task has the effect of remove_task followed, iff
\* the task is enabled, by add_task, and afterwards the task has a job iff
\* it is enabled, built from the expression of the update.
C36_Update ==
    [][ /\ C36_SameAsRemoveAdd
        /\ returned'.op = "update_task" =>
              (jobs'[returned'.task_id] # NoJob <=> returned'.enabled) ]_vars

\* C36, amended: afterwards the task has a job iff it is enabled and its
\* expression is one add_task accepts; with an expression add_task rejects,
\* update_task raises after the old job is removed.
C36_UpdateAccepted ==
    [][ /\ C36_SameAsRemoveAdd
        /\ returned'.op = "update_task" =>
              /\ jobs'[returned'.task_id] # NoJob <=>
                    (returned'.enabled /\ validate_cron_expression(returned'.cron))
              /\ returned'.raised <=>
                    (returned'.enabled /\ ~validate_cron_expression(returned'.cron)) ]_vars

\* update_task replaced the every-minute job of task 0 by an hourly one
\* after the first minute had passed
C36_Witness ==
    /\ returned.op = "update_task"
    /\ returned.task_id = 0
    /\ returned.enabled
    /\ returned.cron = Hourly
    /\ clock > 0
    /\ jobs[0] # NoJob
    /\ jobs[0].trigger = Hourly
    /\ jobs[0].next_run_time = 60
    /\ task_files[0].nextExecutionAt = 60

\* ----------------------------------------- executions whose stream is over
\* The agent stream of every execution ends, times out or fails: the call of
\* _execute_task_impl that waits for it is resumed by the event loop.
StreamIsOver ==
    \E c \in coroutines :
        \/ AgentEnd(c)
        \/ AgentTimeout(c)
        \/ \E d \in Failures : AgentError(c, d)

FairExecSpec == ExecSpec /\ WF_vars(StreamIsOver)

ExecutionIds == 0..MaxClock

\* the execution file `id` of task t has one of the given statuses
Recorded(t, id, statuses) ==
    \E e \in execution_files[t] : e.id = id /\ e.status \in statuses

\* every execution file with status running is the record of a call in
\* flight
C37_RunningInFlight ==
    \A t \in TaskIds : \A e \in execution_files[t] :
        e.status = "running" =>
            \E c \in coroutines :
                c.task_id = t /\ c.pc = "streaming" /\ c.execution.id = e.id

\* a record that is stored as running changes only into the record of the
\* same execution with status success or failed
C37_EndsTerminal ==
    \A t \in TaskIds : \A id \in ExecutionIds :
        (Recorded(t, id, {"running"}) /\ ~Recorded(t, id, {"running"})') =>
            Recorded(t, id, {"success", "failed"})'

NoneRunning == \A t \in TaskIds : \A id \in ExecutionIds : ~Recorded(t, id, {"running"})

\* C37: every execution stored with status running is later stored with
\* status success or failed, given that its agent stream ends or fails:
\* again and again no record is running, and a running record changes only
\* into its terminal record; and no execution is stored as running once its
\* call of _execute_task_impl has returned.
C37_Terminal ==
    /\ []<>NoneRunning
    /\ [][C37_EndsTerminal]_vars
    /\ []C37_RunningInFlight

\* a scheduled execution was stored as running and is now stored as failed
\* after its stream raised, its call having returned
C37_Witness ==
    /\ IsReturn(returned)
    /\ returned.agent_invoked
    /\ ~returned.manual
    /\ returned.execution.status = "failed"
    /\ returned.execution \in execution_files[returned.execution.taskId]
    /\ \A c \in coroutines : c.call # returned.call
    /\ ~Recorded(returned.execution.taskId, returned.execution.id, {"running"})

\* the step of C38: add_task was called with some expression
C38_AddStep ==
    returned'.op = "add_task" =>
        /\ returned'.raised <=> ~validate_cron_expression(returned'.cron)
        /\ ~returned'.raised => jobs'[returned'.task_id] # NoJob

\* the step of C38: validate_cron_expression was called; it answered True
\* or False and changed nothing
C38_ValidateStep ==
    returned'.op = "validate" =>
        /\ returned'.valid \in BOOLEAN
        /\ returned'.valid = validate_cron_expression(returned'.cron)
        /\ UNCHANGED <<jobs, task_files, execution_files, running_tasks>>

\* C38: validate_cron_expression and add_task agree: add_task of a task
\* raises exactly for the expressions for which validate_cron_expression
\* returns False; validate_cron_expression itself never raises and changes
\* neither the jobs, nor the task files, nor the running flags.
C38_ValidateAgreesWithAdd == [][C38_AddStep /\ C38_ValidateStep]_vars

\* add_task gave a job to a task with an expression that validates
C38_Witness ==
    /\ returned.op = "add_task"
    /\ ~returned.raised
    /\ validate_cron_expression(returned.cron)
    /\ jobs[returned.task_id] # NoJob
    /\ jobs[returned.task_id].trigger = returned.cron
    /\ \E t \in TaskIds : IsTask(task_files[t]) /\ jobs[t] = NoJob
          /\ ~validate_cron_expression(task_files[t].cronExpression)

\* in this step the handler `op` served a request (a step that starts an
\* execution also counts in nops, and changes the calls in flight)
Served(op) == returned'.op = op /\ nops' = nops + 1 /\ coroutines' = coroutines

\* task t is stored with the enabled flag b
StoredEnabled(files, t, b) == IsTask(files[t]) /\ files[t].enabled = b

\* the step of C39: an enable request leaves every task that is stored
\* enabled as it is, file and job, and a disable request every task that is
\* stored disabled; the only thing either changes is a task with the other
\* flag
C39_AlreadyStep(op, b) ==
    Served(op) =>
        \A t \in TaskIds :
            (task_files'[t] # task_files[t] \/ jobs'[t] # jobs[t]) =>
                StoredEnabled(task_files, t, ~b)

\* a request that changed a task leaves it with the flag asked for: enabled
\* with a job and its next run time, or disabled with neither
C39_ChangedStep(op, b) ==
    (Served(op) /\ returned'.status = 200) =>
        \A t \in TaskIds :
            task_files'[t] # task_files[t] =>
                /\ StoredEnabled(task_files', t, b)
                /\ jobs'[t] # NoJob <=> b
                /\ task_files'[t].nextExecutionAt = get_next_run_time(jobs', t)

\* C39: enable and disable are idempotent: enabling a task that is stored
\* enabled and disabling a task that is stored disabled change neither the
\* task files (updatedAt and nextExecutionAt included) nor the jobs; a task
\* that enable or disable did change has the flag asked for, so the same
\* request again changes nothing.
C39_Idempotent ==
    [][ /\ C39_AlreadyStep("enable", TRUE)
        /\ C39_AlreadyStep("disable", FALSE)
        /\ C39_ChangedStep("enable", TRUE)
        /\ C39_ChangedStep("disable", FALSE) ]_vars

\* task 0 was disabled and, later, disabled again: the second request found
\* it disabled and left the file of the first, with its updatedAt
C39_Witness ==
    /\ returned.op = "disable"
    /\ returned.status = 200
    /\ ~Has(returned, "effects")
    /\ nops = 2
    /\ StoredEnabled(task_files, 0, FALSE)
    /\ task_files[0].updatedAt < clock
    /\ task_files[0].updatedAt > 0
    /\ task_files[0].nextExecutionAt = Null
    /\ jobs[0] = NoJob

====
